---------------------------- MODULE Spec2Model ----------------------------
(***************************************************************************)
(* A model of src-tauri/src/lib.rs: the canvas persistence worker and its   *)
(* durable write, the remote asset cache, the upstream graph resolver and   *)
(* the chat context assembler.                                              *)
(***************************************************************************)
EXTENDS Integers, Sequences, FiniteSets, TLC

(***************************************************************************)
(* Text.  A Rust String is modelled as a run-length encoded sequence of     *)
(* characters: <<[c |-> "a", n |-> 3]>> is "aaa".  Every operation below    *)
(* works on characters and on UTF-8 bytes as the Rust code does.            *)
(***************************************************************************)
Ascii == {"a", "b", "c", "d", "e", "f", "g", "h", "i", "j", "k", "l", "m", "n",
          "o", "p", "q", "r", "s", "t", "u", "v", "w", "x", "y", "z",
          "0", "1", "2", "3", "4", "5", "6", "7", "8", "9",
          " ", "\r", "\n", ":", "-", ".", "/", "?", "#", "+"}

AlphaNum == {"a", "b", "c", "d", "e", "f", "g", "h", "i", "j", "k", "l", "m", "n",
             "o", "p", "q", "r", "s", "t", "u", "v", "w", "x", "y", "z",
             "0", "1", "2", "3", "4", "5", "6", "7", "8", "9"}

White == {" ", "\r", "\n"}

Width(c) == IF c \in Ascii THEN 1 ELSE 3

Run(c, n) == IF n > 0 THEN <<[c |-> c, n |-> n]>> ELSE <<>>

RECURSIVE Canon(_)
Canon(t) ==
  IF Len(t) = 0 THEN <<>>
  ELSE IF t[1].n = 0 THEN Canon(Tail(t))
  ELSE IF Len(t) = 1 THEN t
  ELSE IF t[2].n = 0 THEN Canon(<<t[1]>> \o Tail(Tail(t)))
  ELSE IF t[1].c = t[2].c
       THEN Canon(<<[c |-> t[1].c, n |-> t[1].n + t[2].n]>> \o Tail(Tail(t)))
       ELSE <<t[1]>> \o Canon(Tail(t))

Cat(s, t) == Canon(s \o t)

RECURSIVE CharLen(_)
CharLen(t) == IF Len(t) = 0 THEN 0 ELSE t[1].n + CharLen(Tail(t))

RECURSIVE ByteLen(_)
ByteLen(t) == IF Len(t) = 0 THEN 0 ELSE t[1].n * Width(t[1].c) + ByteLen(Tail(t))

RECURSIVE TakeChars(_, _)
TakeChars(t, k) ==
  IF Len(t) = 0 \/ k <= 0 THEN <<>>
  ELSE IF t[1].n >= k THEN <<[c |-> t[1].c, n |-> k]>>
  ELSE <<t[1]>> \o TakeChars(Tail(t), k - t[1].n)

RECURSIVE ReplaceCrLf(_)
ReplaceCrLf(t) ==
  IF Len(t) < 2 THEN t
  ELSE IF t[1].c = "\r" /\ t[2].c = "\n"
       THEN Run("\r", t[1].n - 1) \o <<t[2]>> \o ReplaceCrLf(Tail(Tail(t)))
       ELSE <<t[1]>> \o ReplaceCrLf(Tail(t))

RECURSIVE TrimStart(_)
TrimStart(t) ==
  IF Len(t) = 0 THEN t
  ELSE IF t[1].c \in White THEN TrimStart(Tail(t)) ELSE t

RECURSIVE TrimEnd(_)
TrimEnd(t) ==
  IF Len(t) = 0 THEN t
  ELSE IF t[Len(t)].c \in White THEN TrimEnd(SubSeq(t, 1, Len(t) - 1)) ELSE t

Trim(t) == TrimEnd(TrimStart(t))

normalize_text(t) == Canon(Trim(ReplaceCrLf(Canon(t))))

StartsWith(t, prefix) ==
  /\ CharLen(prefix) <= CharLen(t)
  /\ Canon(TakeChars(Canon(t), CharLen(prefix))) = Canon(prefix)


(***************************************************************************)
(* Bounds of the model.                                                     *)
(***************************************************************************)
\* clock ticks that make up the worker's 650 ms debounce
TicksPerDebounce == 2
\* commands the front end issues in one run of the canvas store
MaxCalls == 3
\* write(2) calls std::fs::write needs for one serialized snapshot
SerChunks == 2
\* writes of a worker that the file system refuses in one run
MaxFaults == 1

\* the threads of the runtime's pool that run the commands, in the order the
\* runtime hands them out: a command goes to the first free thread
ClientOrder == <<"c1", "c2">>
Clients == {ClientOrder[i] : i \in 1..Len(ClientOrder)}
ChanOrder == <<"k1", "k2">>
Chans == {ChanOrder[i] : i \in 1..Len(ChanOrder)}
Actors == Clients \cup Chans
\* the snapshots: the n-th command carries snapshot n, 0 is no snapshot
Values == 1..MaxCalls

PidP == Run("p", 1)
PidQ == Run("q", 1)
ProjectIds == {PidP, PidQ, Run(" ", 1), <<>>}

\* project_id.trim().is_empty()
IsBlank(pid) == Len(Trim(pid)) = 0

Projects == {p \in ProjectIds : ~IsBlank(p)}

VARIABLES
  once,     \* CANVAS_SAVE_SENDER: "unset" or the channel whose Sender it holds
  chan,     \* the mpsc channels created so far
  worker,   \* the canvas_save_worker threads, one per channel
  client,   \* the front end's command invocations in progress
  wr,       \* save_project_canvas_to_disk_blocking in progress, per thread
  files,    \* the canvas store directory
  calls,    \* commands issued so far
  hist,     \* history of the run (what was enqueued, written, created)
  cdir,     \* the image and media cache directories: the files, name and contents
  fetch,    \* the cache_remote_image / cache_remote_media calls in progress
  fcalls,   \* fetches issued so far
  lastOk,   \* the last fetch that returned a path, while the cache is as it left it
  gcall,    \* the arguments of a graph_collect_upstream_inputs call
  gret,     \* what the call returned, once it has
  bcall,    \* the arguments of a build_chat_messages call
  bret,     \* what the call returned, once it has
  scall,    \* the arguments of a search_memory call, and the clock it reads
  sret      \* what the call scored and returned, once it has

canvasVars == <<once, chan, worker, client, wr, files, calls, hist>>
cacheVars == <<cdir, fetch, fcalls, lastOk>>
graphVars == <<gcall, gret>>
buildVars == <<bcall, bret>>
searchVars == <<scall, sret>>
vars == <<canvasVars, cacheVars, graphVars, buildVars, searchVars>>

\* what the steps of one subsystem leave alone
notCanvas == <<cacheVars, graphVars, buildVars, searchVars>>
notCache == <<canvasVars, graphVars, buildVars, searchVars>>
notGraph == <<canvasVars, cacheVars, buildVars, searchVars>>
notBuild == <<canvasVars, cacheVars, graphVars, searchVars>>
notSearch == <<canvasVars, cacheVars, graphVars, buildVars>>

(***************************************************************************)
(* The canvas store: one file <hash(projectId)>.json per project and the    *)
(* temporary sibling <hash(projectId)>.json.tmp.<pid of the process>.       *)
(***************************************************************************)
NoFile == [exists |-> FALSE, data |-> <<>>]
Hole == <<0, 0>>

\* serde_json::to_vec: the bytes of a snapshot, in the pieces they are written in
Ser(v) == [k \in 1..SerChunks |-> <<v, k>>]

\* serde_json::from_slice on the bytes read
Parses(data) == \E v \in Values : data = Ser(v)
Parsed(data) == CHOOSE v \in Values : data = Ser(v)

RECURSIVE Pad(_, _)
Pad(data, n) == IF Len(data) >= n THEN data ELSE Pad(Append(data, Hole), n)

\* a write(2) of one piece at the descriptor's offset
WriteAt(data, off, piece) ==
  LET d == Pad(data, off - 1)
  IN  IF Len(d) >= off THEN [d EXCEPT ![off] = piece] ELSE Append(d, piece)

IdleWr == [pc |-> "idle", pid |-> <<>>, val |-> 0, fd |-> "none", off |-> 0]
IdleClient == [pc |-> "idle", pid |-> <<>>, val |-> 0, tx |-> ""]
NoPending == [p \in Projects |-> 0]
NoWorker == [pc |-> "none", pending |-> NoPending, batch |-> NoPending, waited |-> 0]
NoChan == [made |-> FALSE, q |-> <<>>, senders |-> 0]

InitHist ==
  [ sinceSend |-> 0, broken |-> FALSE,
    enq |-> [p \in Projects |-> 0],
    direct |-> [p \in Projects |-> FALSE],
    wwrites |-> [p \in Projects |-> 0],
    errs |-> {},
    faults |-> 0,
    deleted |-> [p \in Projects |-> FALSE],
    taken |-> [k \in Chans |-> {}],
    refused |-> [k \in Chans |-> {}],
    landed |-> [k \in Chans |-> {}] ]

CanvasInit ==
  /\ once = "unset"
  /\ chan = [k \in Chans |-> NoChan]
  /\ worker = [k \in Chans |-> NoWorker]
  /\ client = [c \in Clients |-> IdleClient]
  /\ wr = [a \in Actors |-> IdleWr]
  /\ files = [p \in Projects |-> [json |-> NoFile, tmp |-> NoFile]]
  /\ calls = 0
  /\ hist = InitHist

(***************************************************************************)
(* save_project_canvas_to_disk_blocking, run by a command's blocking task   *)
(* or by a worker thread: validate, std::fs::write(tmp), std::fs::rename.   *)
(***************************************************************************)
\* the thread's call returns: a command reports r, a worker discards it
DiskReturn(a, r) ==
  /\ client' = IF a \in Clients THEN [client EXCEPT ![a] = IdleClient] ELSE client
  /\ hist' = IF a \in Clients /\ r # "ok"
             THEN [hist EXCEPT !.errs = @ \cup {r}] ELSE hist

\* lines 95-102: the validation, then open(tmp, O_CREAT | O_TRUNC)
DiskOpen(a) ==
  /\ UNCHANGED notCanvas
  /\ wr[a].pc = "open"
  /\ IF IsBlank(wr[a].pid)
     THEN /\ wr' = [wr EXCEPT ![a] = IdleWr]
          /\ DiskReturn(a, "validation")
          /\ UNCHANGED files
     ELSE /\ files' = [files EXCEPT ![wr[a].pid].tmp = [exists |-> TRUE, data |-> <<>>]]
          /\ wr' = [wr EXCEPT ![a].pc = "write", ![a].fd = "tmp", ![a].off = 1]
          /\ hist' = IF a \in Chans
                     THEN [hist EXCEPT !.wwrites[wr[a].pid] = @ + 1] ELSE hist
          /\ UNCHANGED client
  /\ UNCHANGED <<once, chan, worker, calls>>

\* line 102: one write(2) of std::fs::write's write_all, then close
DiskWrite(a) ==
  /\ UNCHANGED notCanvas
  /\ wr[a].pc = "write"
  /\ LET w == wr[a]
         last == w.off >= SerChunks
     IN  /\ files' = IF w.fd \in {"tmp", "json"}
                     THEN [files EXCEPT ![w.pid][w.fd].data = WriteAt(@, w.off, <<w.val, w.off>>)]
                     ELSE files
         /\ wr' = [wr EXCEPT ![a].off = w.off + 1,
                             ![a].pc = IF last THEN "rename" ELSE "write",
                             ![a].fd = IF last THEN "none" ELSE w.fd]
  /\ UNCHANGED <<once, chan, worker, client, calls, hist>>

FdAfterRename(w, p) ==
  IF w.pid = p /\ w.fd = "tmp" THEN "json"
  ELSE IF w.pid = p /\ w.fd = "json" THEN "gone" ELSE w.fd

FdAfterRemove(w, p) == IF w.pid = p /\ w.fd = "json" THEN "gone" ELSE w.fd

\* line 103: rename(tmp, path), which fails when tmp is no longer there
DiskRename(a) ==
  /\ UNCHANGED notCanvas
  /\ wr[a].pc = "rename"
  /\ LET p == wr[a].pid
     IN  IF files[p].tmp.exists
         THEN /\ files' = [files EXCEPT ![p] = [json |-> files[p].tmp, tmp |-> NoFile]]
              /\ wr' = [b \in Actors |->
                          IF b = a THEN IdleWr
                          ELSE [wr[b] EXCEPT !.fd = FdAfterRename(wr[b], p)]]
              /\ client' = IF a \in Clients THEN [client EXCEPT ![a] = IdleClient] ELSE client
              /\ hist' = IF a \in Chans /\ files[p].tmp.data = Ser(wr[a].val)
                         THEN [hist EXCEPT !.landed[a] = @ \cup {p}] ELSE hist
         ELSE /\ wr' = [wr EXCEPT ![a] = IdleWr]
              /\ DiskReturn(a, "io")
              /\ UNCHANGED files
  /\ UNCHANGED <<once, chan, worker, calls>>

\* lines 99-102: the file system refuses the worker's write (the directory
\* or the temporary file cannot be created); the worker discards the error
DiskRefuse(k) ==
  /\ UNCHANGED notCanvas
  /\ wr[k].pc = "open"
  /\ hist.faults < MaxFaults
  /\ wr' = [wr EXCEPT ![k] = IdleWr]
  /\ hist' = [hist EXCEPT !.faults = @ + 1, !.refused[k] = @ \cup {wr[k].pid}]
  /\ UNCHANGED <<once, chan, worker, client, files, calls>>

\* the thread a new command runs on
Free(c) ==
  /\ client[c].pc = "idle" /\ calls < MaxCalls
  /\ \E i \in 1..Len(ClientOrder) :
       /\ ClientOrder[i] = c
       /\ \A j \in 1..(i - 1) : client[ClientOrder[j]].pc # "idle"

(***************************************************************************)
(* The commands: save_project_canvas, enqueue_save_project_canvas,          *)
(* load_project_canvas, delete_project_canvas.                              *)
(***************************************************************************)
Direct(pid) ==
  IF pid \in Projects THEN [hist EXCEPT !.direct[pid] = TRUE] ELSE hist

\* a save of the project is issued: a delete before it no longer stands
Started(h, pid) ==
  IF pid \in Projects THEN [h EXCEPT !.deleted[pid] = FALSE] ELSE h

\* a save of the project that another command has begun and not finished
Saving(c, pid) ==
  \E d \in Clients \ {c} :
    /\ client[d].pc \in {"set", "send", "disk"}
    /\ client[d].pid = pid \/ wr[d].pid = pid

\* a delete of the project returns Ok with no save of it under way
Gone(h, c, pid) ==
  IF pid \in Projects /\ ~Saving(c, pid) THEN [h EXCEPT !.deleted[pid] = TRUE] ELSE h

\* lines 162-167: the write runs on a blocking task and is awaited
SaveCall(c, pid) ==
  /\ UNCHANGED notCanvas
  /\ Free(c)
  /\ calls' = calls + 1
  /\ client' = [client EXCEPT ![c] = [IdleClient EXCEPT !.pc = "disk"]]
  /\ wr' = [wr EXCEPT ![c] = [IdleWr EXCEPT !.pc = "open", !.pid = pid, !.val = calls + 1]]
  /\ hist' = Started(Direct(pid), pid)
  /\ UNCHANGED <<once, chan, worker, files>>

\* the command without its validation
EnqueueCall_unchecked(c, pid) ==
  /\ UNCHANGED notCanvas
  /\ Free(c)
  /\ calls' = calls + 1
  /\ client' = [client EXCEPT ![c] =
                  [pc |-> IF once # "unset" THEN "send" ELSE "set",
                   pid |-> pid, val |-> calls + 1,
                   tx |-> IF once # "unset" THEN once ELSE ""]]
  /\ chan' = IF once # "unset" THEN [chan EXCEPT ![once].senders = @ + 1] ELSE chan
  /\ hist' = Started(hist, pid)
  /\ UNCHANGED <<once, worker, wr, files>>

\* lines 170-174 and 51-53: the validation, then CANVAS_SAVE_SENDER.get() and
\* the clone of the Sender found
EnqueueCall(c, pid) ==
  /\ UNCHANGED notCanvas
  /\ Free(c)
  /\ calls' = calls + 1
  /\ IF IsBlank(pid)
     THEN /\ hist' = [hist EXCEPT !.errs = @ \cup {"validation"}]
          /\ UNCHANGED <<client, chan>>
     ELSE /\ client' = [client EXCEPT ![c] =
                          [pc |-> IF once # "unset" THEN "send" ELSE "set",
                           pid |-> pid, val |-> calls + 1,
                           tx |-> IF once # "unset" THEN once ELSE ""]]
          /\ chan' = IF once # "unset" THEN [chan EXCEPT ![once].senders = @ + 1] ELSE chan
          /\ hist' = Started(hist, pid)
  /\ UNCHANGED <<once, worker, wr, files>>

NextChan == ChanOrder[CHOOSE i \in 1..Len(ChanOrder) :
                        /\ ~chan[ChanOrder[i]].made
                        /\ \A j \in 1..(i - 1) : chan[ChanOrder[j]].made]

\* lines 55-58: channel(), then CANVAS_SAVE_SENDER.set(tx.clone()), whose
\* result is ignored (the clone is dropped when the cell is already set), then
\* thread::spawn of canvas_save_worker on the channel just made
EnsureSet(c) ==
  /\ UNCHANGED notCanvas
  /\ client[c].pc = "set"
  /\ \E k \in Chans : ~chan[k].made
  /\ LET k == NextChan
     IN  /\ chan' = [chan EXCEPT ![k] = [made |-> TRUE, q |-> <<>>,
                                         senders |-> IF once = "unset" THEN 2 ELSE 1]]
         /\ once' = IF once = "unset" THEN k ELSE once
         /\ client' = [client EXCEPT ![c].pc = "send", ![c].tx = k]
         /\ worker' = [worker EXCEPT ![k] = [NoWorker EXCEPT !.pc = "recv"]]
  /\ UNCHANGED <<wr, files, calls, hist>>

\* lines 175-178: send on the Sender obtained, which is dropped on return
EnqueueSend(c) ==
  /\ UNCHANGED notCanvas
  /\ client[c].pc = "send"
  /\ LET k == client[c].tx
         p == client[c].pid
     IN  IF worker[k].pc = "exited"
         THEN /\ chan' = [chan EXCEPT ![k].senders = @ - 1]
              /\ hist' = [hist EXCEPT !.errs = @ \cup {"closed"}]
         ELSE /\ chan' = [chan EXCEPT ![k].q = Append(@, [pid |-> p, val |-> client[c].val]),
                                      ![k].senders = @ - 1]
              /\ hist' = [hist EXCEPT
                            !.enq[p] = client[c].val,
                            !.broken = @ \/ ( /\ hist.sinceSend >= TicksPerDebounce
                                              /\ \E x \in Projects : hist.enq[x] # 0 ),
                            !.sinceSend = 0]
  /\ client' = [client EXCEPT ![c] = IdleClient]
  /\ UNCHANGED <<once, worker, wr, files, calls>>

\* lines 627-637: a blank id is answered None, and so is a missing file
LoadCall(c, pid) ==
  /\ UNCHANGED notCanvas
  /\ Free(c)
  /\ calls' = calls + 1
  /\ client' = IF IsBlank(pid) \/ ~files[pid].json.exists THEN client
               ELSE [client EXCEPT ![c] = [IdleClient EXCEPT !.pc = "read", !.pid = pid]]
  /\ UNCHANGED <<once, chan, worker, wr, files, hist>>

\* lines 638-640: std::fs::read, then serde_json::from_slice
LoadRead(c) ==
  /\ UNCHANGED notCanvas
  /\ client[c].pc = "read"
  /\ LET f == files[client[c].pid].json
     IN  hist' = IF ~f.exists THEN [hist EXCEPT !.errs = @ \cup {"io"}]
                 ELSE IF ~Parses(f.data) THEN [hist EXCEPT !.errs = @ \cup {"parse"}]
                 ELSE hist
  /\ client' = [client EXCEPT ![c] = IdleClient]
  /\ UNCHANGED <<once, chan, worker, wr, files, calls>>

\* lines 647-653: a blank id and a missing file are both answered Ok
DeleteCall(c, pid) ==
  /\ UNCHANGED notCanvas
  /\ Free(c)
  /\ calls' = calls + 1
  /\ client' = IF IsBlank(pid) \/ ~files[pid].json.exists THEN client
               ELSE [client EXCEPT ![c] = [IdleClient EXCEPT !.pc = "remove", !.pid = pid]]
  /\ hist' = IF IsBlank(pid) \/ files[pid].json.exists THEN Direct(pid)
             ELSE Gone(Direct(pid), c, pid)
  /\ UNCHANGED <<once, chan, worker, wr, files>>

\* line 654: std::fs::remove_file
DeleteRemove(c) ==
  /\ UNCHANGED notCanvas
  /\ client[c].pc = "remove"
  /\ LET p == client[c].pid
     IN  IF files[p].json.exists
         THEN /\ files' = [files EXCEPT ![p].json = NoFile]
              /\ wr' = [b \in Actors |-> [wr[b] EXCEPT !.fd = FdAfterRemove(wr[b], p)]]
              /\ hist' = Gone(hist, c, p)
         ELSE /\ hist' = [hist EXCEPT !.errs = @ \cup {"io"}]
              /\ UNCHANGED <<files, wr>>
  /\ client' = [client EXCEPT ![c] = IdleClient]
  /\ UNCHANGED <<once, chan, worker, calls>>

(***************************************************************************)
(* canvas_save_worker (lines 61-92).                                        *)
(***************************************************************************)
\* lines 79 and 88: the history of the batch that std::mem::take hands over
Taking(k) ==
  IF worker[k].pending = NoPending THEN hist
  ELSE [hist EXCEPT !.taken[k] = {p \in Projects : worker[k].pending[p] # 0},
                    !.refused[k] = {}, !.landed[k] = {}]

\* lines 66-70: a request is there before the timeout
WorkerRecv(k) ==
  /\ UNCHANGED notCanvas
  /\ worker[k].pc = "recv"
  /\ chan[k].q # <<>>
  /\ LET r == Head(chan[k].q)
     IN  worker' = [worker EXCEPT ![k].pending[r.pid] = r.val, ![k].waited = 0]
  /\ chan' = [chan EXCEPT ![k].q = Tail(@)]
  /\ UNCHANGED <<once, client, wr, files, calls, hist>>

\* lines 71, 75-79: 650 ms without a request
WorkerTimeout(k) ==
  /\ UNCHANGED notCanvas
  /\ worker[k].pc = "recv"
  /\ chan[k].q = <<>>
  /\ worker[k].waited >= TicksPerDebounce
  /\ worker' = IF worker[k].pending = NoPending
               THEN [worker EXCEPT ![k].waited = 0]
               ELSE [worker EXCEPT ![k].pc = "flush", ![k].batch = worker[k].pending,
                                   ![k].pending = NoPending, ![k].waited = 0]
  /\ hist' = Taking(k)
  /\ UNCHANGED <<once, chan, client, wr, files, calls>>

\* lines 72, 85-88: every Sender is gone and the queue is empty
WorkerDisconnected(k) ==
  /\ UNCHANGED notCanvas
  /\ worker[k].pc = "recv"
  /\ chan[k].q = <<>>
  /\ chan[k].senders = 0
  /\ worker' = IF worker[k].pending = NoPending
               THEN [worker EXCEPT ![k].pc = "exited", ![k].waited = 0]
               ELSE [worker EXCEPT ![k].pc = "final", ![k].batch = worker[k].pending,
                                   ![k].pending = NoPending, ![k].waited = 0]
  /\ hist' = Taking(k)
  /\ UNCHANGED <<once, chan, client, wr, files, calls>>

\* lines 80-81 and 89-90: the next entry of the batch, in the HashMap's order
WorkerWriteNext(k) ==
  /\ UNCHANGED notCanvas
  /\ worker[k].pc \in {"flush", "final"}
  /\ wr[k].pc = "idle"
  /\ \E p \in Projects :
       /\ worker[k].batch[p] # 0
       /\ wr' = [wr EXCEPT ![k] = [IdleWr EXCEPT !.pc = "open", !.pid = p,
                                                 !.val = worker[k].batch[p]]]
       /\ worker' = [worker EXCEPT ![k].batch[p] = 0]
  /\ UNCHANGED <<once, chan, client, files, calls, hist>>

\* lines 83 and 91: the batch is written; back to the loop, or return
WorkerBatchDone(k) ==
  /\ UNCHANGED notCanvas
  /\ worker[k].pc \in {"flush", "final"}
  /\ wr[k].pc = "idle"
  /\ worker[k].batch = NoPending
  /\ worker' = [worker EXCEPT ![k].pc = IF worker[k].pc = "flush" THEN "recv" ELSE "exited"]
  /\ hist' = [hist EXCEPT !.taken[k] = {}, !.refused[k] = {}, !.landed[k] = {}]
  /\ UNCHANGED <<once, chan, client, wr, files, calls>>

\* Time passes: one tick of the clock the recv_timeout deadlines are read on.
\* The steps between the OnceLock read and the send, and the receipt of a
\* queued request by a waiting worker, take no time on that clock; disk I/O
\* takes any time.
Tick ==
  /\ UNCHANGED notCanvas
  /\ \A c \in Clients : client[c].pc \notin {"set", "send"}
  /\ \A k \in Chans : worker[k].pc = "recv" => chan[k].q = <<>>
  /\ \/ hist.sinceSend < TicksPerDebounce
     \/ \E k \in Chans : worker[k].pc = "recv" /\ worker[k].waited < TicksPerDebounce
  /\ worker' = [k \in Chans |->
                  IF worker[k].pc = "recv" /\ worker[k].waited < TicksPerDebounce
                  THEN [worker[k] EXCEPT !.waited = @ + 1] ELSE worker[k]]
  /\ hist' = [hist EXCEPT !.sinceSend = IF @ < TicksPerDebounce THEN @ + 1 ELSE @]
  /\ UNCHANGED <<once, chan, client, wr, files, calls>>

CanvasNext ==
  \/ \E c \in Clients, pid \in ProjectIds : SaveCall(c, pid)
  \/ \E c \in Clients, pid \in ProjectIds : EnqueueCall(c, pid)
  \/ \E c \in Clients, pid \in ProjectIds : LoadCall(c, pid)
  \/ \E c \in Clients, pid \in ProjectIds : DeleteCall(c, pid)
  \/ \E c \in Clients : EnsureSet(c)
  \/ \E c \in Clients : EnqueueSend(c)
  \/ \E c \in Clients : LoadRead(c)
  \/ \E c \in Clients : DeleteRemove(c)
  \/ \E a \in Actors : DiskOpen(a)
  \/ \E a \in Actors : DiskWrite(a)
  \/ \E a \in Actors : DiskRename(a)
  \/ \E k \in Chans : DiskRefuse(k)
  \/ \E k \in Chans : WorkerRecv(k)
  \/ \E k \in Chans : WorkerTimeout(k)
  \/ \E k \in Chans : WorkerDisconnected(k)
  \/ \E k \in Chans : WorkerWriteNext(k)
  \/ \E k \in Chans : WorkerBatchDone(k)
  \/ Tick

(***************************************************************************)
(* Properties of the canvas store.                                          *)
(***************************************************************************)
\* no command is running, no request is queued or pending, no write is going on
Quiescent ==
  /\ \A c \in Clients : client[c].pc = "idle"
  /\ \A a \in Actors : wr[a].pc = "idle"
  /\ \A k \in Chans : /\ chan[k].q = <<>>
                      /\ worker[k].pc \in {"none", "recv", "exited"}
                      /\ worker[k].pending = NoPending

Holds(p, v) == files[p].json = [exists |-> TRUE, data |-> Ser(v)]

\* C1: a burst of enqueueSave calls for one project (every request less than
\* the debounce after the one before), once the store has come to rest, has
\* caused exactly one disk write for the project, of the last snapshot enqueued.
C1_BurstIsOneWrite ==
  \A p \in Projects :
    ( /\ hist.enq[p] # 0
      /\ \A x \in Projects \ {p} : hist.enq[x] = 0
      /\ ~hist.broken
      /\ ~hist.direct[p]
      /\ hist.faults = 0
      /\ Quiescent )
    => (hist.wwrites[p] = 1 /\ Holds(p, hist.enq[p]))

\* C2: the snapshot file of a project is at every moment absent or the complete
\* serialization of one snapshot, and no load reads anything else.
C2_NeverTorn ==
  /\ \A p \in Projects : files[p].json.exists => Parses(files[p].json.data)
  /\ "parse" \notin hist.errs

\* C3: at most one channel and one worker thread are ever created, and every
\* request is sent on the channel CANVAS_SAVE_SENDER holds.
C3_OneWorkerOneMailbox ==
  /\ Cardinality({k \in Chans : chan[k].made}) <= 1
  /\ Cardinality({k \in Chans : worker[k].pc # "none"}) <= 1
  /\ \A c \in Clients : client[c].pc = "send" => client[c].tx = once

\* C4: when enqueueSave(p, v) was the last save to return for the project, and
\* no saveNow or delete was issued for it, the store at rest holds v for p
\* (load(p) returns v).
C4_EnqueuedIsLoaded ==
  \A p \in Projects :
    (hist.enq[p] # 0 /\ ~hist.direct[p] /\ hist.faults = 0 /\ Quiescent)
      => Holds(p, hist.enq[p])

\* what a rejected command leaves alone: no file, mailbox, worker or cell
NothingDone == UNCHANGED <<once, chan, worker, files>>

\* C15: enqueueSave and saveNow called with an empty or white projectId
\* return a validation error and leave the state unchanged: no file is
\* created or written, no message is put in a mailbox, no worker is started.
C15_BlankIdIsRejected ==
  [][\A c \in Clients, pid \in ProjectIds :
       IsBlank(pid) =>
         /\ EnqueueCall(c, pid) =>
              /\ "validation" \in hist'.errs
              /\ NothingDone /\ UNCHANGED <<client, wr>>
         /\ SaveCall(c, pid) => NothingDone
         /\ (wr[c].pid = pid /\ DiskOpen(c)) =>
              /\ "validation" \in hist'.errs
              /\ NothingDone
              /\ client'[c] = IdleClient /\ wr'[c] = IdleWr]_vars

\* two commands with a blank id have been rejected, and nothing exists
C15_Witness ==
  /\ calls = 2
  /\ hist.errs = {"validation"}
  /\ \A c \in Clients : client[c].pc = "idle"
  /\ \A a \in Actors : wr[a].pc = "idle"
  /\ once = "unset"
  /\ \A k \in Chans : ~chan[k].made /\ worker[k].pc = "none"
  /\ \A p \in Projects : ~files[p].json.exists /\ ~files[p].tmp.exists

\* the worker threads that are inside save_project_canvas_to_disk_blocking
Writing == {k \in Chans : wr[k].pc # "idle"}

\* C16: at most one disk write of an enqueued snapshot is in progress.
C16_OneWriteAtATime == Cardinality(Writing) <= 1

\* the worker has been through every entry of the batch it took
BatchOver(k) ==
  /\ worker[k].pc \in {"flush", "final"}
  /\ worker[k].batch = NoPending
  /\ wr[k].pc = "idle"

\* C17: when the write of one project of a batch fails during a flush, the
\* worker still attempts the write of every other project of the batch and
\* keeps running, and the snapshots of the other projects reach disk.
C17_FailureIsIsolated ==
  \A k \in Chans :
    /\ (worker[k].pc \in {"flush", "final"} /\ hist.refused[k] # {})
         => \A p \in hist.taken[k] \ hist.refused[k] :
              \/ worker[k].batch[p] # 0
              \/ wr[k].pc # "idle" /\ wr[k].pid = p
              \/ p \in hist.landed[k]
    /\ (hist.refused[k] # {} /\ hist.faults > 0) => worker[k].pc # "none"

\* C22: once delete(p) has completed, and until an enqueueSave or a saveNow
\* of p is issued, the project has no file (load(p) returns absent): a
\* snapshot enqueued before the delete does not come back on disk.
C22_DeletedStaysAbsent ==
  \A p \in Projects : hist.deleted[p] => ~files[p].json.exists

(***************************************************************************)
(* The asset cache: cache_remote_image and cache_remote_media.              *)
(***************************************************************************)
\* fetches the front end issues in one run of the cache
MaxFetches == 2

MAX_IMAGE_BYTES == 50 * 1024 * 1024
MAX_MEDIA_BYTES == 300 * 1024 * 1024

Kinds == {"image", "media"}
Limit(kind) == IF kind = "image" THEN MAX_IMAGE_BYTES ELSE MAX_MEDIA_BYTES

FetcherOrder == <<"f1", "f2">>
Fetchers == {FetcherOrder[i] : i \in 1..Len(FetcherOrder)}

\* Option<T>: <<>> is None, <<x>> is Some(x)
None == <<>>
Some(x) == <<x>>

\* urls, tokens, content types and extensions are tuples of characters
FirstIdx(cs, S) ==
  IF \E i \in 1..Len(cs) : cs[i] \in S
  THEN CHOOSE i \in 1..Len(cs) : cs[i] \in S /\ \A j \in 1..(i - 1) : cs[j] \notin S
  ELSE 0

LastIdx(cs, S) ==
  IF \E i \in 1..Len(cs) : cs[i] \in S
  THEN CHOOSE i \in 1..Len(cs) : cs[i] \in S /\ \A j \in (i + 1)..Len(cs) : cs[j] \notin S
  ELSE 0

HasPrefix(cs, prefix) == Len(cs) >= Len(prefix) /\ SubSeq(cs, 1, Len(prefix)) = prefix

RECURSIVE StripStart(_, _)
StripStart(cs, S) == IF Len(cs) > 0 /\ cs[1] \in S THEN StripStart(Tail(cs), S) ELSE cs

RECURSIVE StripEnd(_, _)
StripEnd(cs, S) ==
  IF Len(cs) > 0 /\ cs[Len(cs)] \in S THEN StripEnd(SubSeq(cs, 1, Len(cs) - 1), S) ELSE cs

ToLowerChar(c) ==
  CASE c = "P" -> "p" [] c = "N" -> "n" [] c = "G" -> "g" [] OTHER -> c

to_ascii_lowercase(cs) == [i \in 1..Len(cs) |-> ToLowerChar(cs[i])]

\* lines 109-115: what is left of an extension is kept if it has 2 to 6
\* characters, all of them letters or digits
CheckedExtension(trimmed) ==
  IF Len(trimmed) < 2 \/ Len(trimmed) > 6 THEN None
  ELSE IF \E i \in 1..Len(trimmed) : trimmed[i] \notin AlphaNum THEN None
  ELSE Some(trimmed)

\* lines 107-116
sanitize_extension(ext) ==
  CheckedExtension(to_ascii_lowercase(StripStart(StripEnd(StripStart(ext, White), White), {"."})))

SchemeEnd(cs) ==
  IF \E k \in 2..(Len(cs) - 2) : cs[k] = ":" /\ cs[k + 1] = "/" /\ cs[k + 2] = "/"
  THEN CHOOSE k \in 2..(Len(cs) - 2) :
         /\ cs[k] = ":" /\ cs[k + 1] = "/" /\ cs[k + 2] = "/"
         /\ \A j \in 2..(k - 1) : ~(cs[j] = ":" /\ cs[j + 1] = "/" /\ cs[j + 2] = "/")
  ELSE 0

Before(cs, S) == IF FirstIdx(cs, S) = 0 THEN cs ELSE SubSeq(cs, 1, FirstIdx(cs, S) - 1)
From(cs, S) == IF FirstIdx(cs, S) = 0 THEN <<>> ELSE SubSeq(cs, FirstIdx(cs, S), Len(cs))

PathOfAuthority(hostpath) ==
  IF Len(hostpath) = 0 \/ hostpath[1] = "/" THEN None
  ELSE IF From(hostpath, {"/"}) = <<>> THEN Some(<<"/">>)
  ELSE Some(From(hostpath, {"/"}))

\* line 119, reqwest::Url::parse(url).ok()?.path(): what follows scheme://host,
\* up to the query or the fragment; the urls without an authority that are
\* drawn here are the inline ones, which return before this is asked
UrlPath(url) ==
  IF SchemeEnd(url) = 0 THEN None
  ELSE PathOfAuthority(Before(SubSeq(url, SchemeEnd(url) + 3, Len(url)), {"?", "#"}))

ExtensionOfName(name) ==
  IF Len(name) = 0 \/ LastIdx(name, {"."}) <= 1 THEN None
  ELSE Some(SubSeq(name, LastIdx(name, {"."}) + 1, Len(name)))

\* line 120, Path::new(path).extension(): what follows the last dot of the
\* file name, which is not the name's first character
PathExtension(path) == ExtensionOfName(SubSeq(path, LastIdx(path, {"/"}) + 1, Len(path)))

ExtensionOfPath(path) == IF path = None THEN None ELSE PathExtension(path[1])
SanitizedOf(ext) == IF ext = None THEN None ELSE sanitize_extension(ext[1])

\* lines 118-122
extension_from_url(url) == SanitizedOf(ExtensionOfPath(UrlPath(url)))

ContentTypeTable ==
  << <<<<"i", "m", "a", "g", "e", "/", "p", "n", "g">>, <<"p", "n", "g">>>>,
     <<<<"i", "m", "a", "g", "e", "/", "j", "p", "e", "g">>, <<"j", "p", "g">>>>,
     <<<<"i", "m", "a", "g", "e", "/", "j", "p", "g">>, <<"j", "p", "g">>>>,
     <<<<"i", "m", "a", "g", "e", "/", "w", "e", "b", "p">>, <<"w", "e", "b", "p">>>>,
     <<<<"i", "m", "a", "g", "e", "/", "g", "i", "f">>, <<"g", "i", "f">>>>,
     <<<<"i", "m", "a", "g", "e", "/", "s", "v", "g", "+", "x", "m", "l">>, <<"s", "v", "g">>>>,
     <<<<"i", "m", "a", "g", "e", "/", "a", "v", "i", "f">>, <<"a", "v", "i", "f">>>>,
     <<<<"i", "m", "a", "g", "e", "/", "h", "e", "i", "c">>, <<"h", "e", "i", "c">>>>,
     <<<<"i", "m", "a", "g", "e", "/", "h", "e", "i", "f">>, <<"h", "e", "i", "f">>>>,
     <<<<"v", "i", "d", "e", "o", "/", "m", "p", "4">>, <<"m", "p", "4">>>>,
     <<<<"v", "i", "d", "e", "o", "/", "w", "e", "b", "m">>, <<"w", "e", "b", "m">>>>,
     <<<<"v", "i", "d", "e", "o", "/", "q", "u", "i", "c", "k", "t", "i", "m", "e">>, <<"m", "o", "v">>>>,
     <<<<"a", "u", "d", "i", "o", "/", "m", "p", "e", "g">>, <<"m", "p", "3">>>>,
     <<<<"a", "u", "d", "i", "o", "/", "m", "p", "4">>, <<"m", "4", "a">>>>,
     <<<<"a", "u", "d", "i", "o", "/", "m", "4", "a">>, <<"m", "4", "a">>>>,
     <<<<"a", "u", "d", "i", "o", "/", "w", "a", "v">>, <<"w", "a", "v">>>> >>

MatchingRows(ct) == {i \in 1..Len(ContentTypeTable) : HasPrefix(ct, ContentTypeTable[i][1])}
FirstRowOf(hits) ==
  IF hits = {} THEN None
  ELSE Some(ContentTypeTable[CHOOSE i \in hits : \A j \in hits : i <= j][2])

\* lines 124-159: the first row of the table the lowercased type starts with
extension_from_content_type(content_type) ==
  IF content_type = None THEN None
  ELSE FirstRowOf(MatchingRows(to_ascii_lowercase(content_type[1])))

\* lines 669 and 741
IsInline(url) ==
  \/ HasPrefix(url, <<"d", "a", "t", "a", ":">>)
  \/ HasPrefix(url, <<"b", "l", "o", "b", ":">>)

\* lines 676-682 and 748-754: SHA-256 over the bytes of the url followed by
\* those of the token; the digest is taken to be free of collisions, so that
\* it is written as the bytes it was fed
CacheKey(url, token) == url \o token

\* the file <kind>-<hash>.<ext> of the kind's cache directory
FileName(kind, key, ext) == [kind |-> kind, key |-> key, ext |-> ext]
NoName == [kind |-> "", key |-> <<>>, ext |-> <<>>]

DefaultExt(kind) == IF kind = "image" THEN <<"p", "n", "g">> ELSE <<"b", "i", "n">>

OrElse(a, b) == IF a # None THEN a ELSE b

\* lines 723-726 and 791-794
TargetName(kind, url, token, ct) ==
  FileName(kind, CacheKey(url, token),
           OrElse(OrElse(extension_from_url(url), extension_from_content_type(ct)),
                  Some(DefaultExt(kind)))[1])

(***************************************************************************)
(* The requests and the server's answers.                                   *)
(***************************************************************************)
UrlExt == <<"h", "t", "t", "p", ":", "/", "/", "h", "/", "a", ".", "p", "n", "g">>
UrlBare == <<"h", "t", "t", "p", ":", "/", "/", "h", "/", "a">>
UrlQuery == <<"h", "t", "t", "p", ":", "/", "/", "h", "/", "a", "?", "b", ".", "p", "n", "g">>
UrlData == <<"d", "a", "t", "a", ":", "a">>
\* two urls of one file, with an empty query and with the query "b"
UrlAsk == UrlExt \o <<"?">>
UrlAskB == UrlExt \o <<"?", "b">>
Urls == {UrlExt, UrlBare, UrlData, UrlAsk, UrlAskB}
Tokens == {<<>>, <<"b">>}

\* the (url, token) pairs of the calls: an inline url, a url with an extension
\* of its own and a url without one; a url fetched with a token, which ends
\* where the token begins, and the url that goes on as that token
Requests ==
  {[url |-> UrlData, token |-> <<>>], [url |-> UrlExt, token |-> <<>>],
   [url |-> UrlBare, token |-> <<>>],
   [url |-> UrlAsk, token |-> <<"b">>], [url |-> UrlAskB, token |-> <<>>]}

ContentTypes == {None, Some(<<"i", "m", "a", "g", "e", "/", "p", "n", "g">>), Some(<<"v", "i", "d", "e", "o", "/", "m", "p", "4">>)}

\* the bodies a server sends, as the sizes of the chunks they arrive in: one
\* of exactly the kind's limit, one a byte over it
Bodies == {1, 2}
ChunkSizes(kind, b) == IF b = 1 THEN <<Limit(kind) - 1, 1>> ELSE <<Limit(kind), 1>>

RECURSIVE SumSeq(_)
SumSeq(q) == IF Len(q) = 0 THEN 0 ELSE q[1] + SumSeq(Tail(q))

\* the contents of a file holding the whole of body b
BodyData(kind, b) == [i \in 1..Len(ChunkSizes(kind, b)) |-> <<b, i>>]

Responses ==
  {[ok |-> FALSE, ct |-> None, body |-> 1]}
  \cup [ok : {TRUE}, ct : ContentTypes, body : Bodies]

\* the functions of the inputs, tabulated over the inputs the calls draw from
UrlExtension == [u \in Urls |-> extension_from_url(u)]
UrlInline == [u \in Urls |-> IsInline(u)]
KeyOf == [u \in Urls |-> [t \in Tokens |-> CacheKey(u, t)]]
TargetOf == [k \in Kinds |-> [u \in Urls |-> [t \in Tokens |-> [ct \in ContentTypes |->
               TargetName(k, u, t, ct)]]]]
BodySize == [k \in Kinds |-> [b \in Bodies |-> SumSeq(ChunkSizes(k, b))]]

IdleFetch ==
  [pc |-> "idle", kind |-> "", url |-> UrlData, token |-> <<>>, body |-> 0,
   name |-> NoName, fd |-> "none", idx |-> 0, size |-> 0, ret |-> "",
   net |-> 0, repeat |-> FALSE, prior |-> NoName, alone |-> TRUE, had |-> {}]

NoOk == [valid |-> FALSE, kind |-> "", url |-> UrlData, token |-> <<>>, name |-> NoName]

CacheInit ==
  /\ cdir = {}
  /\ fetch = [f \in Fetchers |-> IdleFetch]
  /\ fcalls = 0
  /\ lastOk = NoOk

Exists(name) == \E e \in cdir : e.name = name
DataOf(name) == (CHOOSE e \in cdir : e.name = name).data
Put(dir, name, data) == {e \in dir : e.name # name} \cup {[name |-> name, data |-> data]}
Del(dir, name) == {e \in dir : e.name # name}

Active(f) == fetch[f].pc \notin {"idle", "done"}

SameKey(f, kind, key) ==
  fetch[f].kind = kind /\ KeyOf[fetch[f].url][fetch[f].token] = key

\* the cache files of a key, with their contents
KeyFiles(dir, kind, key) == {e \in dir : e.name.kind = kind /\ e.name.key = key}

\* the call returns r (and, with "ok", the path of name n)
Returned(rec, r, n) ==
  [rec EXCEPT !.pc = "done", !.ret = r, !.name = n, !.fd = "none", !.idx = 0]

OkOf(rec, n) == [valid |-> TRUE, kind |-> rec.kind, url |-> rec.url,
                 token |-> rec.token, name |-> n]

\* the thread a new fetch runs on
FreeFetcher(f) ==
  /\ ~Active(f) /\ fcalls < MaxFetches
  /\ \E i \in 1..Len(FetcherOrder) :
       /\ FetcherOrder[i] = f
       /\ \A j \in 1..(i - 1) : Active(FetcherOrder[j])

\* lines 664-695 and 736-767: an inline url is returned as it is; a file named
\* by the url's own extension is a hit, answered without a request
FetchCall(f, kind, url, token) ==
  /\ UNCHANGED notCache
  /\ FreeFetcher(f)
  /\ fcalls' = fcalls + 1
  /\ LET key == KeyOf[url][token]
         ue == UrlExtension[url]
         others == {g \in Fetchers \ {f} : Active(g) /\ SameKey(g, kind, key)}
         rec == [IdleFetch EXCEPT
                   !.kind = kind, !.url = url, !.token = token,
                   !.alone = (others = {}),
                   !.had = KeyFiles(cdir, kind, key),
                   !.repeat = /\ lastOk.valid /\ lastOk.kind = kind
                              /\ lastOk.url = url /\ lastOk.token = token
                              /\ \A g \in Fetchers : ~Active(g),
                   !.prior = lastOk.name]
         new == IF UrlInline[url] THEN Returned(rec, "inline", NoName)
                ELSE IF ue # None /\ Exists(FileName(kind, key, ue[1]))
                     THEN Returned(rec, "ok", FileName(kind, key, ue[1]))
                     ELSE [rec EXCEPT !.pc = "request"]
     IN  /\ fetch' = [g \in Fetchers |->
                        IF g = f THEN new
                        ELSE IF g \in others THEN [fetch[g] EXCEPT !.alone = FALSE]
                        ELSE fetch[g]]
         /\ lastOk' = IF new.ret = "ok" THEN OkOf(new, new.name) ELSE lastOk
  /\ UNCHANGED cdir

\* lines 697-728 and 769-798: the GET and its answer r; a status that is not
\* 2xx is an error; the image variant buffers the body and rejects one over
\* MAX_IMAGE_BYTES; then the target's name, and whether it exists already
Respond(f, r) ==
  /\ UNCHANGED notCache
  /\ fetch[f].pc = "request"
  /\ LET rec == [fetch[f] EXCEPT !.net = @ + 1, !.body = r.body]
         target == TargetOf[rec.kind][rec.url][rec.token][r.ct]
         new == IF ~r.ok THEN Returned(rec, "http", NoName)
                ELSE IF rec.kind = "image" /\ BodySize["image"][r.body] > MAX_IMAGE_BYTES
                     THEN Returned(rec, "too_large", NoName)
                ELSE IF Exists(target) THEN Returned(rec, "ok", target)
                ELSE [rec EXCEPT !.pc = "open", !.name = target]
     IN  /\ fetch' = [fetch EXCEPT ![f] = new]
         /\ lastOk' = IF new.ret = "ok" THEN OkOf(new, new.name) ELSE lastOk
  /\ UNCHANGED <<cdir, fcalls>>

\* lines 729 and 800: std::fs::write opens the target, tokio::fs::File::create
\* creates it; both truncate a file that is already there
OpenTarget(f) ==
  /\ UNCHANGED notCache
  /\ fetch[f].pc = "open"
  /\ cdir' = Put(cdir, fetch[f].name, <<>>)
  /\ fetch' = [fetch EXCEPT ![f].pc = IF fetch[f].kind = "image" THEN "write" ELSE "stream",
                            ![f].fd = "live", ![f].idx = 1]
  /\ lastOk' = NoOk
  /\ UNCHANGED fcalls

PieceWritten(f) ==
  IF fetch[f].fd = "live" /\ Exists(fetch[f].name)
  THEN Put(cdir, fetch[f].name, WriteAt(DataOf(fetch[f].name), fetch[f].idx, <<fetch[f].body, fetch[f].idx>>))
  ELSE cdir

\* lines 729-732: the write_all of std::fs::write, piece by piece, then Ok(target)
ImageWrite(f) ==
  /\ UNCHANGED notCache
  /\ fetch[f].pc = "write"
  /\ LET rec == fetch[f]
         last == rec.idx >= Len(ChunkSizes(rec.kind, rec.body))
         new == IF last THEN Returned(rec, "ok", rec.name) ELSE [rec EXCEPT !.idx = @ + 1]
     IN  /\ cdir' = PieceWritten(f)
         /\ fetch' = [fetch EXCEPT ![f] = new]
         /\ lastOk' = IF last THEN OkOf(new, new.name) ELSE NoOk
  /\ UNCHANGED fcalls

RemoveTarget_kept(dir, name) == dir
\* line 807: remove_file(target), whose result is ignored
RemoveTarget(dir, name) == Del(dir, name)

\* lines 803-814: the next chunk of the stream; past MAX_MEDIA_BYTES the target
\* is removed and the fetch fails; after the last chunk the file is flushed
MediaStream(f) ==
  /\ UNCHANGED notCache
  /\ fetch[f].pc = "stream"
  /\ LET rec == fetch[f]
         size == rec.size + ChunkSizes(rec.kind, rec.body)[rec.idx]
         last == rec.idx >= Len(ChunkSizes(rec.kind, rec.body))
     IN  IF size > MAX_MEDIA_BYTES
         THEN /\ cdir' = RemoveTarget(cdir, rec.name)
              /\ fetch' = [g \in Fetchers |->
                             IF g = f THEN Returned([rec EXCEPT !.size = size], "too_large", NoName)
                             ELSE IF fetch[g].name = rec.name /\ fetch[g].fd = "live"
                                  THEN [fetch[g] EXCEPT !.fd = "gone"]
                                  ELSE fetch[g]]
              /\ lastOk' = NoOk
         ELSE /\ cdir' = PieceWritten(f)
              /\ fetch' = [fetch EXCEPT ![f] =
                             IF last THEN Returned([rec EXCEPT !.size = size], "ok", rec.name)
                             ELSE [rec EXCEPT !.size = size, !.idx = @ + 1]]
              /\ lastOk' = IF last THEN OkOf(rec, rec.name) ELSE NoOk
  /\ UNCHANGED fcalls

CacheNext ==
  \/ \E f \in Fetchers, kind \in Kinds, q \in Requests : FetchCall(f, kind, q.url, q.token)
  \/ \E f \in Fetchers, r \in Responses : Respond(f, r)
  \/ \E f \in Fetchers : OpenTarget(f)
  \/ \E f \in Fetchers : ImageWrite(f)
  \/ \E f \in Fetchers : MediaStream(f)

(***************************************************************************)
(* Properties of the asset cache.                                           *)
(***************************************************************************)
KeyOfFetch(rec) == KeyOf[rec.url][rec.token]

\* C5: a fetch that follows a successful fetch of the same (url, token) and
\* kind, with no fetch running and the cache directory untouched in between,
\* makes no network request and returns the path the first one returned.
C5_RepeatIsLocal ==
  \A f \in Fetchers :
    fetch[f].repeat =>
      /\ fetch[f].net = 0
      /\ fetch[f].pc = "done" => (fetch[f].ret = "ok" /\ fetch[f].name = fetch[f].prior)

\* C6: when two overlapping fetches of the same (url, token, kind) that were
\* sent the same body have both finished, each path that was returned names
\* a file that exists and holds exactly that body.
C6_ConcurrentFetchesAgree ==
  \A f \in Fetchers, g \in Fetchers :
    ( /\ f # g
      /\ fetch[f].pc = "done" /\ fetch[g].pc = "done"
      /\ ~fetch[f].alone /\ ~fetch[g].alone
      /\ fetch[f].kind = fetch[g].kind
      /\ fetch[f].url = fetch[g].url /\ fetch[f].token = fetch[g].token
      /\ fetch[f].body # 0 /\ fetch[f].body = fetch[g].body
      /\ fetch[f].ret = "ok" )
    => /\ Exists(fetch[f].name)
       /\ DataOf(fetch[f].name) = BodyData(fetch[f].kind, fetch[f].body)

\* the step in which fetch f, which no fetch of its key overlapped, returns
\* the size-limit error
FailsTooLarge(f) ==
  /\ fetch[f].pc # "done" /\ fetch'[f].pc = "done"
  /\ fetch'[f].ret = "too_large" /\ fetch'[f].alone

PairOf(rec) == <<rec.url, rec.token>>

\* C23: two fetches of one kind with different (url, token) pairs are never
\* answered with the same cache file: their keys differ, and what was fetched
\* under one pair is no hit for the other.
C23_PairsHaveOwnFiles ==
  \A f, g \in Fetchers :
    ( /\ fetch[f].ret = "ok" /\ fetch[g].ret = "ok"
      /\ fetch[f].kind = fetch[g].kind
      /\ PairOf(fetch[f]) # PairOf(fetch[g]) )
    => /\ KeyOfFetch(fetch[f]) # KeyOfFetch(fetch[g])
       /\ fetch[f].name # fetch[g].name

(***************************************************************************)
(* The upstream graph resolver.                                             *)
(***************************************************************************)
\* nodes and edges a call may list
MaxNodes == 3
MaxEdges == 3

\* the character U+2026 that safe_slice appends
Ellipsis == Run("U2026", 1)

\* lines 265-282
safe_slice(text, max_chars) ==
  IF CharLen(normalize_text(text)) <= max_chars THEN normalize_text(text)
  ELSE Cat(TakeChars(normalize_text(text), max_chars), Ellipsis)

\* lines 284-287: a key that is absent or not a string reads as ""
value_string(value, key) == IF key \in DOMAIN value THEN normalize_text(value[key]) ELSE <<>>

NoData == [content |-> <<>>]
NodeOf(id, type, data) == [id |-> id, node_type |-> type, data |-> data]
EdgeOf(source, target) == [source |-> source, target |-> target, data |-> NoData]

IdA == Run("a", 1)
IdB == Run("b", 1)
IdC == Run("c", 1)
\* the focus id as the front end holds it, and with white space around it
FocusIds == {IdA, Run(" ", 1) \o Run("a", 1) \o Run("\n", 1)}

SomeText == [content |-> Run("x", 1) \o Run("\r", 1) \o Run("\n", 1)]
SomeImage == [url |-> Run("u", 1), label |-> Run("l", 1)]

NodeChoices ==
  {NodeOf(IdA, "text", SomeText), NodeOf(IdA, "image", SomeImage),
   NodeOf(IdB, "imageConfig", NoData), NodeOf(IdC, "videoConfig", NoData),
   NodeOf(IdC, "text", SomeText), NodeOf(IdC, "text", NoData),
   NodeOf(IdC, "image", SomeImage)}

EdgeChoices ==
  {EdgeOf(IdA, IdB), EdgeOf(IdC, IdB), EdgeOf(IdA, IdC)}

SeqsUpTo(S, n) == UNION {[1..k -> S] : k \in 0..n}

\* lines 351-356: the map keeps, for an id that is not blank, the last node
\* of the list that carries it
node_by_id(nodes, id) ==
  IF \E i \in 1..Len(nodes) : nodes[i].id = id /\ ~IsBlank(nodes[i].id)
  THEN Some(nodes[CHOOSE i \in 1..Len(nodes) :
                    /\ nodes[i].id = id
                    /\ \A j \in (i + 1)..Len(nodes) : nodes[j].id # id])
  ELSE None

\* lines 364-366: an edge with a blank end is skipped
EdgeKept(e) == ~IsBlank(e.source) /\ ~IsBlank(e.target)

\* lines 367 and 368: the kept edges into, and out of, a node, in list order
RECURSIVE incoming(_, _)
incoming(edges, id) ==
  IF Len(edges) = 0 THEN <<>>
  ELSE IF EdgeKept(edges[1]) /\ edges[1].target = id
       THEN <<edges[1]>> \o incoming(Tail(edges), id)
       ELSE incoming(Tail(edges), id)

RECURSIVE outgoing(_, _)
outgoing(edges, id) ==
  IF Len(edges) = 0 THEN <<>>
  ELSE IF EdgeKept(edges[1]) /\ edges[1].source = id
       THEN <<edges[1]>> \o outgoing(Tail(edges), id)
       ELSE outgoing(Tail(edges), id)

IsConfig(t) == t # None /\ t[1].node_type \in {"imageConfig", "videoConfig"}

\* every node the focus node's edges lead to, of whatever type
RECURSIVE config_targets_any(_, _)
config_targets_any(out, nodes) ==
  IF Len(out) = 0 THEN <<>>
  ELSE IF node_by_id(nodes, out[1].target) # None
       THEN <<out[1].target>> \o config_targets_any(Tail(out), nodes)
       ELSE config_targets_any(Tail(out), nodes)

\* lines 371-380: the config nodes the focus node's edges lead to, per edge
RECURSIVE config_targets(_, _)
config_targets(out, nodes) ==
  IF Len(out) = 0 THEN <<>>
  ELSE IF IsConfig(node_by_id(nodes, out[1].target))
       THEN <<out[1].target>> \o config_targets(Tail(out), nodes)
       ELSE config_targets(Tail(out), nodes)

OrDefault(text, default) == IF Len(text) = 0 THEN default ELSE text

DefaultTextLabel == Run("U6587", 1) \o Run("U672C", 1) \o Run("U8282", 1) \o Run("U70B9", 1)
DefaultImageLabel == Run("U53C2", 1) \o Run("U8003", 1) \o Run("U56FE", 1)
DefaultRole == Run("r", 1)
DataPrefix == Run("d", 1) \o Run("a", 1) \o Run("t", 1) \o Run("a", 1) \o Run(":", 1)

\* lines 400-405
TextBlock(src, cfg_id) ==
  [id |-> src.id,
   label |-> OrDefault(value_string(src.data, "label"), DefaultTextLabel),
   text |-> safe_slice(value_string(src.data, "content"), 520),
   target |-> cfg_id]

ImageUrl(url) == IF StartsWith(url, DataPrefix) THEN <<>> ELSE safe_slice(url, 240)

\* lines 414-420; the default role, "input_reference", is written DefaultRole
ImageBlock(src, e, cfg_id) ==
  [id |-> src.id,
   label |-> OrDefault(value_string(src.data, "label"), DefaultImageLabel),
   role |-> OrDefault(value_string(e.data, "imageRole"), DefaultRole),
   url |-> ImageUrl(value_string(src.data, "url")),
   target |-> cfg_id]

\* line 391
IsFocus(id, focus_id) == id = focus_id

Remembered_forgets(seen, id) == seen
\* lines 406 and 421: seen_text.insert, seen_image.insert
Remembered(seen, id) == seen \cup {id}

NoBlocks == [text |-> <<>>, images |-> <<>>, seen_text |-> {}, seen_image |-> {}]

\* lines 388-423: one incoming edge of a config node
VisitSource(acc, src, e, cfg_id, focus_id) ==
  IF src.node_type = "text"
  THEN IF IsFocus(src.id, focus_id) \/ src.id \in acc.seen_text
          \/ Len(value_string(src.data, "content")) = 0
       THEN acc
       ELSE [acc EXCEPT !.text = Append(@, TextBlock(src, cfg_id)),
                        !.seen_text = Remembered(@, src.id)]
  ELSE IF src.node_type = "image"
  THEN IF src.id \in acc.seen_image THEN acc
       ELSE [acc EXCEPT !.images = Append(@, ImageBlock(src, e, cfg_id)),
                        !.seen_image = Remembered(@, src.id)]
  ELSE acc

VisitEdge(acc, src, e, cfg_id, focus_id) ==
  IF src = None THEN acc ELSE VisitSource(acc, src[1], e, cfg_id, focus_id)

\* lines 387-424: the incoming edges of one config node
RECURSIVE VisitEdges(_, _, _, _, _)
VisitEdges(acc, in_edges, cfg_id, focus_id, nodes) ==
  IF Len(in_edges) = 0 THEN acc
  ELSE VisitEdges(VisitEdge(acc, node_by_id(nodes, in_edges[1].source), in_edges[1],
                            cfg_id, focus_id),
                  Tail(in_edges), cfg_id, focus_id, nodes)

\* lines 385-425: the config nodes in turn
RECURSIVE VisitConfigs(_, _, _, _, _)
VisitConfigs(acc, cfgs, focus_id, nodes, edges) ==
  IF Len(cfgs) = 0 THEN acc
  ELSE VisitConfigs(VisitEdges(acc, incoming(edges, cfgs[1]), cfgs[1], focus_id, nodes),
                    Tail(cfgs), focus_id, nodes, edges)

Inputs(acc) == [text |-> acc.text, images |-> acc.images]

Resolve(focus_id, nodes, edges) ==
  IF Len(focus_id) = 0 \/ node_by_id(nodes, focus_id) = None THEN Inputs(NoBlocks)
  ELSE Inputs(VisitConfigs(NoBlocks, config_targets(outgoing(edges, focus_id), nodes),
                           focus_id, nodes, edges))

\* lines 345-430
graph_collect_upstream_inputs(focus_node_id, nodes, edges) ==
  Resolve(Trim(focus_node_id), nodes, edges)

IdleGraph == [focus |-> <<>>, nodes |-> <<>>, edges |-> <<>>]
NoRet == [done |-> FALSE, text |-> <<>>, images |-> <<>>]

GraphIdle == gcall = IdleGraph /\ gret = NoRet

GraphInit ==
  /\ gcall \in [focus : FocusIds, nodes : SeqsUpTo(NodeChoices, MaxNodes),
                edges : SeqsUpTo(EdgeChoices, MaxEdges)]
  /\ gret = NoRet

\* edges of one graph, where the image list is looked at
MaxImageEdges == 4

IdD == Run("d", 1)
IdE == Run("e", 1)

\* graphs of a focus node a, the nodes b and c it may lead to and the
\* sources d and e: two config nodes and a focus that is a text or an image
\* node, a c that is no config node with a d that is a text node in the end,
\* and a graph without the focus node
\* images by their url: an inline one behind a blank, one of 240 characters
\* and one of 241
InlineImage == [url |-> Run(" ", 1) \o DataPrefix \o Run("b", 1), label |-> Run("l", 1)]
FullImage == [url |-> Run("u", 240), label |-> Run("l", 1)]
LongImage == [url |-> Run("u", 241), label |-> Run("l", 1)]

ImageGraphs ==
  {<<NodeOf(IdA, "text", SomeText), NodeOf(IdB, "imageConfig", NoData),
     NodeOf(IdC, "videoConfig", NoData), NodeOf(IdD, "image", LongImage),
     NodeOf(IdE, "image", SomeImage)>>,
   <<NodeOf(IdA, "image", InlineImage), NodeOf(IdB, "imageConfig", NoData),
     NodeOf(IdC, "videoConfig", NoData), NodeOf(IdD, "image", FullImage),
     NodeOf(IdE, "image", SomeImage)>>,
   <<NodeOf(IdA, "text", SomeText), NodeOf(IdB, "imageConfig", NoData),
     NodeOf(IdC, "text", SomeText), NodeOf(IdD, "image", SomeImage),
     NodeOf(IdD, "text", SomeText), NodeOf(IdE, "image", SomeImage)>>,
   <<NodeOf(IdB, "imageConfig", NoData), NodeOf(IdC, "videoConfig", NoData),
     NodeOf(IdD, "image", SomeImage), NodeOf(IdE, "image", SomeImage)>>}

ImageEdgeChoices ==
  {EdgeOf(IdA, IdB), EdgeOf(IdA, IdC), EdgeOf(IdD, IdB), EdgeOf(IdD, IdC),
   EdgeOf(IdE, IdC), EdgeOf(IdE, IdD)}

ImagesInit ==
  /\ gcall \in [focus : FocusIds, nodes : ImageGraphs,
                edges : SeqsUpTo(ImageEdgeChoices, MaxImageEdges)]
  /\ gret = NoRet

Collect ==
  /\ UNCHANGED notGraph
  /\ ~gret.done
  /\ gret' = [done |-> TRUE] @@ graph_collect_upstream_inputs(gcall.focus, gcall.nodes, gcall.edges)
  /\ UNCHANGED gcall

GraphNext == Collect

\* the node the call is about: the one whose id is the trimmed focus id
FocusNodeId == Trim(gcall.focus)

TextIds == {gret.text[i].id : i \in 1..Len(gret.text)}
ImageIds == {gret.images[i].id : i \in 1..Len(gret.images)}

\* C8: the result has no text block whose id is the focus node's, no two text
\* blocks with the same id and no two image blocks with the same id.
C8_NoFocusNoDuplicates ==
  gret.done =>
    /\ FocusNodeId \notin TextIds
    /\ Cardinality(TextIds) = Len(gret.text)
    /\ Cardinality(ImageIds) = Len(gret.images)

\* a text source is reached over two edges, and the focus node, a text node
\* itself, feeds the config node it leads to
C8_Witness ==
  /\ gret.done
  /\ Len(gret.text) = 1 /\ Len(gret.images) = 0
  /\ node_by_id(gcall.nodes, FocusNodeId) # None
  /\ node_by_id(gcall.nodes, FocusNodeId)[1].node_type = "text"
  /\ gcall.edges = <<EdgeOf(IdA, IdB), EdgeOf(IdC, IdB), EdgeOf(IdC, IdB)>>

\* the type of the node an id stands for, "" when there is none
TypeOf(id) ==
  IF node_by_id(gcall.nodes, id) = None THEN ""
  ELSE node_by_id(gcall.nodes, id)[1].node_type

\* the edges from the focus node to a config node, by their place in the list
SinkEdges ==
  {i \in 1..Len(gcall.edges) :
     /\ EdgeKept(gcall.edges[i])
     /\ gcall.edges[i].source = FocusNodeId
     /\ TypeOf(gcall.edges[i].target) \in {"imageConfig", "videoConfig"}}

\* <<i, j>>: edge j brings an image node into the sink that edge i leads to
Feeds ==
  {p \in SinkEdges \X (1..Len(gcall.edges)) :
     /\ EdgeKept(gcall.edges[p[2]])
     /\ gcall.edges[p[2]].target = gcall.edges[p[1]].target
     /\ TypeOf(gcall.edges[p[2]].source) = "image"}

\* sink iteration order, then incoming-edge order
Sooner(p, q) == p[1] < q[1] \/ (p[1] = q[1] /\ p[2] < q[2])

FeedsOf(id) == {p \in Feeds : gcall.edges[p[2]].source = id}

\* where the walk over the sinks meets the image node first
FirstFeed(id) == CHOOSE p \in FeedsOf(id) : \A q \in FeedsOf(id) : q = p \/ Sooner(p, q)

\* C20: when the focus node exists, the image list holds exactly the image
\* nodes that a valid edge brings into a config node directly downstream of
\* the focus node, each once, in sink iteration order and then incoming-edge
\* order, each with the first sink that reaches it as its target; a source
\* that feeds other nodes only does not appear.
C20_ImagesOfDirectSinks ==
  (gret.done /\ node_by_id(gcall.nodes, FocusNodeId) # None) =>
    /\ ImageIds = {gcall.edges[p[2]].source : p \in Feeds}
    /\ Cardinality(ImageIds) = Len(gret.images)
    /\ \A n \in 1..Len(gret.images) :
         gret.images[n].target = gcall.edges[FirstFeed(gret.images[n].id)[1]].target
    /\ \A n, m \in 1..Len(gret.images) :
         n < m => Sooner(FirstFeed(gret.images[n].id), FirstFeed(gret.images[m].id))

\* three images over two sinks: one that feeds both sinks, one listed ahead
\* of another whose edge comes first in the list, and an edge into a node
\* that is no sink
C20_Witness ==
  /\ gret.done
  /\ Len(gret.images) = 3
  /\ \E p, q \in Feeds :
       /\ gcall.edges[p[2]].source = gcall.edges[q[2]].source
       /\ gcall.edges[p[1]].target # gcall.edges[q[1]].target
  /\ \E n, m \in 1..Len(gret.images) :
       n < m /\ FirstFeed(gret.images[n].id)[2] > FirstFeed(gret.images[m].id)[2]
  /\ gret.images[1].target # gret.images[3].target

\* the url the image node of a block carries, as value_string reads it
SourceUrl(block) == value_string(node_by_id(gcall.nodes, block.id)[1].data, "url")

\* C21: every url of an image block is empty, when the url of its source is
\* an inline data: URL, or else a string of at most 240 characters that is no
\* data: URL.
C21_UrlWithinLimit ==
  gret.done =>
    \A n \in 1..Len(gret.images) :
      IF StartsWith(SourceUrl(gret.images[n]), DataPrefix)
      THEN gret.images[n].url = <<>>
      ELSE /\ CharLen(gret.images[n].url) <= 240
           /\ ~StartsWith(gret.images[n].url, DataPrefix)

\* the same with room for the character that marks a cut url
C21_UrlWithinLimitAndMark ==
  gret.done =>
    \A n \in 1..Len(gret.images) :
      IF StartsWith(SourceUrl(gret.images[n]), DataPrefix)
      THEN gret.images[n].url = <<>>
      ELSE /\ CharLen(gret.images[n].url) <= 241
           /\ ~StartsWith(gret.images[n].url, DataPrefix)

\* an inline url was emptied and a url of 240 characters passed whole
C21_Seen ==
  /\ gret.done
  /\ \E n, m \in 1..Len(gret.images) :
       /\ StartsWith(SourceUrl(gret.images[n]), DataPrefix) /\ gret.images[n].url = <<>>
       /\ CharLen(gret.images[m].url) = 240 /\ gret.images[m].url = SourceUrl(gret.images[m])

(***************************************************************************)
(* The chat context assembler.                                              *)
(***************************************************************************)
\* turns of the conversation and memory items a call may pass
MaxTurns == 3
MaxItems == 2

Min(a, b) == IF a <= b THEN a ELSE b
Max(a, b) == IF a >= b THEN a ELSE b

\* lines 486-488: n.max(a).min(b)
clamp_i64(n, a, b) == Min(Max(n, a), b)

\* lines 525-530: a field that is not positive stands for its default
OrDefaultValue(x, default) == IF x > 0 THEN x ELSE default

\* derive(Default) of ContextConfig, also what serde fills an absent field with
DefaultConfig ==
  [max_chars |-> 0, max_history |-> 0, max_memory_items |-> 0,
   max_canvas_chars |-> 0, max_memory_chars |-> 0, max_summary_chars |-> 0]

\* lines 469-484: a field the caller's object does not carry is read as 0
FieldOf(supplied) == IF supplied = None THEN 0 ELSE supplied[1]

ContextConfig(object) ==
  [max_chars |-> FieldOf(object.max_chars), max_history |-> FieldOf(object.max_history),
   max_memory_items |-> FieldOf(object.max_memory_items),
   max_canvas_chars |-> FieldOf(object.max_canvas_chars),
   max_memory_chars |-> FieldOf(object.max_memory_chars),
   max_summary_chars |-> FieldOf(object.max_summary_chars)]

\* line 519: the config argument as the command receives it
Deserialized(config) == IF config = None THEN None ELSE Some(ContextConfig(config[1]))

\* line 524
unwrap_or_default(config) == IF config = None THEN DefaultConfig ELSE config[1]

\* lines 525-530
Effective(cfg) ==
  [max_chars |-> clamp_i64(OrDefaultValue(cfg.max_chars, 12000), 2000, 50000),
   max_history |-> clamp_i64(OrDefaultValue(cfg.max_history, 16), 4, 64),
   max_memory_items |-> clamp_i64(OrDefaultValue(cfg.max_memory_items, 6), 0, 30),
   max_canvas_chars |-> clamp_i64(OrDefaultValue(cfg.max_canvas_chars, 1200), 0, 8000),
   max_memory_chars |-> clamp_i64(OrDefaultValue(cfg.max_memory_chars, 1200), 0, 8000),
   max_summary_chars |-> clamp_i64(OrDefaultValue(cfg.max_summary_chars, 600), 0, 4000)]

\* the three headings, of 8, 12 and 9 characters outside ASCII, each with its
\* line feed
SummaryHeading ==
  Run("U3010", 1) \o Run("U957F", 1) \o Run("U671F", 1) \o Run("U8BB0", 1)
    \o Run("U5FC6", 1) \o Run("U6458", 1) \o Run("U8981", 1) \o Run("U3011", 1)
    \o Run("\n", 1)
MemoryHeading ==
  Run("U3010", 1) \o Run("U957F", 1) \o Run("U671F", 1) \o Run("U8BB0", 1)
    \o Run("U5FC6", 1) \o Run("UFF08", 1) \o Run("U68C0", 1) \o Run("U7D22", 1)
    \o Run("U547D", 1) \o Run("U4E2D", 1) \o Run("UFF09", 1) \o Run("U3011", 1)
    \o Run("\n", 1)
CanvasHeading ==
  Run("U3010", 1) \o Run("U5F53", 1) \o Run("U524D", 1) \o Run("U9879", 1)
    \o Run("U76EE", 1) \o Run("U4E0A", 1) \o Run("U4E0B", 1) \o Run("U6587", 1)
    \o Run("U3011", 1) \o Run("\n", 1)
Bullet == Run("-", 1) \o Run(" ", 1)

MessageOf(role, content) == [role |-> role, content |-> content]

\* lines 490-492: content.len() is the length in bytes
RECURSIVE estimate_chars(_)
estimate_chars(messages) ==
  IF Len(messages) = 0 THEN 0
  ELSE ByteLen(messages[1].content) + estimate_chars(Tail(messages))

\* lines 498-507: the lines that fit, by their length in bytes, up to the
\* first that does not
RECURSIVE FittingLines(_, _, _)
FittingLines(lines, used, max_chars) ==
  IF Len(lines) = 0 THEN <<>>
  ELSE IF Len(lines[1]) = 0 THEN FittingLines(Tail(lines), used, max_chars)
  ELSE IF used + ByteLen(lines[1]) > max_chars THEN <<>>
  ELSE <<lines[1]>> \o FittingLines(Tail(lines), used + ByteLen(lines[1]), max_chars)

RECURSIVE JoinLines(_)
JoinLines(lines) ==
  IF Len(lines) = 0 THEN <<>>
  ELSE IF Len(lines) = 1 THEN lines[1]
  ELSE Cat(Cat(lines[1], Run("\n", 1)), JoinLines(Tail(lines)))

NormalizedLines(lines) == [i \in 1..Len(lines) |-> normalize_text(lines[i])]

\* lines 494-509
compact_lines(lines, max_chars) == JoinLines(FittingLines(NormalizedLines(lines), 0, max_chars))

\* lines 534-536, 593-595 and 618-620
SystemPart(sys) == IF Len(sys) = 0 THEN <<>> ELSE <<MessageOf("system", sys)>>

\* lines 539-544 and 596-601
SummaryPart(mem_summary, max_summary_chars, kept) ==
  IF Len(mem_summary) # 0 /\ max_summary_chars > 0
  THEN <<MessageOf("system", Cat(SummaryHeading, TakeChars(mem_summary, kept)))>>
  ELSE <<>>

\* lines 548-555: one line per item that is not blank, of its first 260 characters
RECURSIVE SnippetLines(_)
SnippetLines(contents) ==
  IF Len(contents) = 0 THEN <<>>
  ELSE IF Len(contents[1]) = 0 THEN SnippetLines(Tail(contents))
  ELSE <<Cat(Bullet, TakeChars(contents[1], 260))>> \o SnippetLines(Tail(contents))

NormalizedContents(items) == [i \in 1..Len(items) |-> normalize_text(items[i].content)]

PackedPart(packed) ==
  IF Len(packed) = 0 THEN <<>> ELSE <<MessageOf("system", Cat(MemoryHeading, packed))>>

\* lines 546-564
MemoryPart(memory_items, max_memory_items, max_memory_chars) ==
  IF Len(memory_items) # 0 /\ max_memory_items > 0 /\ max_memory_chars > 0
  THEN PackedPart(compact_lines(
         SnippetLines(NormalizedContents(SubSeq(memory_items, 1, Min(Len(memory_items), max_memory_items)))),
         max_memory_chars))
  ELSE <<>>

\* lines 567-572 (shown is true when max_canvas_chars > 0) and 602-607 (always)
CanvasPart(canvas, shown, kept) ==
  IF Len(canvas) # 0 /\ shown
  THEN <<MessageOf("system", Cat(CanvasHeading, TakeChars(canvas, kept)))>>
  ELSE <<>>

\* lines 575-578
RECURSIVE Filtered(_)
Filtered(conversation) ==
  IF Len(conversation) = 0 THEN <<>>
  ELSE IF /\ conversation[1].role # ""
          /\ conversation[1].role # "system"
          /\ Len(normalize_text(conversation[1].content)) # 0
       THEN <<conversation[1]>> \o Filtered(Tail(conversation))
       ELSE Filtered(Tail(conversation))

\* the first n of the filtered turns, not the last
HistoryPart_first(filtered, n) ==
  [i \in 1..Min(Len(filtered), n) |->
     MessageOf(filtered[i].role, normalize_text(filtered[i].content))]

\* lines 579-582 and 591, 608-610: the last n of the filtered turns
HistoryPart(filtered, n) ==
  [i \in 1..Min(Len(filtered), n) |->
     MessageOf(filtered[Len(filtered) - Min(Len(filtered), n) + i].role,
               normalize_text(filtered[Len(filtered) - Min(Len(filtered), n) + i].content))]

UserMessage_cut(user_query) == MessageOf("user", TakeChars(user_query, 360))
\* lines 584, 611 and 622
UserMessage(user_query) == MessageOf("user", user_query)

\* line 590
keep_history(max_history) == clamp_i64(max_history \div 2, 2, max_history)

\* lines 532-584
Tier1(call, lim) ==
  SystemPart(normalize_text(call.system_prompt))
    \o SummaryPart(normalize_text(call.memory_summary), lim.max_summary_chars, lim.max_summary_chars)
    \o MemoryPart(call.memory_items, lim.max_memory_items, lim.max_memory_chars)
    \o CanvasPart(normalize_text(call.canvas_context), lim.max_canvas_chars > 0, lim.max_canvas_chars)
    \o HistoryPart(Filtered(call.conversation), lim.max_history)
    \o <<UserMessage(normalize_text(call.user_text))>>

\* lines 590-611
Tier2(call, lim) ==
  SystemPart(normalize_text(call.system_prompt))
    \o SummaryPart(normalize_text(call.memory_summary), lim.max_summary_chars,
                   Min(lim.max_summary_chars, 360))
    \o CanvasPart(normalize_text(call.canvas_context), TRUE, 360)
    \o HistoryPart(Filtered(call.conversation), keep_history(lim.max_history))
    \o <<UserMessage(normalize_text(call.user_text))>>

\* lines 617-623
Tier3(call) ==
  SystemPart(normalize_text(call.system_prompt))
    \o <<UserMessage(normalize_text(call.user_text))>>

\* lines 586-588, 613-615 and 623: the list returned, and which of the three
\* return statements it was
Chosen(full, base, minimal, max_chars) ==
  IF estimate_chars(full) <= max_chars THEN [out |-> full, tier |-> 1]
  ELSE IF estimate_chars(base) <= max_chars THEN [out |-> base, tier |-> 2]
  ELSE [out |-> minimal, tier |-> 3]

Assembled(call, lim) == Chosen(Tier1(call, lim), Tier2(call, lim), Tier3(call), lim.max_chars)

\* lines 511-624
build_chat_messages(call) ==
  Assembled(call, Effective(unwrap_or_default(Deserialized(call.config))))

\* the texts the calls draw from: a user text that needs normalizing, long
\* ones in ASCII and outside it, and the like for the other arguments
UserTexts ==
  {Run(" ", 1) \o Run("x", 1) \o Run("\r", 1) \o Run("\n", 1) \o Run("y", 1) \o Run(" ", 2),
   Run("x", 1930),
   Run("U4E2D", 700)}
SystemPrompts == {<<>>, Run("s", 100)}
MemorySummaries == {<<>>, Run("U8BB0", 400)}
CanvasContexts == {<<>>, Run("c", 400)}
ItemChoices == {[content |-> Run("i", 300)], [content |-> Run("\n", 1)]}
TurnChoices ==
  {MessageOf("user", Run("h", 10) \o Run(" ", 1)),
   MessageOf("system", Run("h", 10)),
   MessageOf("assistant", Run(" ", 1)),
   MessageOf("assistant", Run("a", 1))}
\* the caller's object with no option supplied
NoOptions ==
  [max_chars |-> None, max_history |-> None, max_memory_items |-> None,
   max_canvas_chars |-> None, max_memory_chars |-> None, max_summary_chars |-> None]

Configs ==
  {None,
   Some([NoOptions EXCEPT !.max_chars = Some(50), !.max_history = Some(100),
                          !.max_canvas_chars = Some(0), !.max_memory_chars = Some(524)]),
   Some([max_chars |-> Some(2000), max_history |-> Some(4), max_memory_items |-> Some(1),
         max_canvas_chars |-> Some(400), max_memory_chars |-> Some(300),
         max_summary_chars |-> Some(40)])}

IdleBuild ==
  [user_text |-> <<>>, system_prompt |-> <<>>, conversation |-> <<>>,
   memory_summary |-> <<>>, memory_items |-> <<>>, canvas_context |-> <<>>,
   config |-> None]
NoOut == [done |-> FALSE, out |-> <<>>, tier |-> 0]

BuildIdle == bcall = IdleBuild /\ bret = NoOut

BuildInit ==
  /\ bcall \in [user_text : UserTexts, system_prompt : SystemPrompts,
                conversation : SeqsUpTo(TurnChoices, MaxTurns),
                memory_summary : MemorySummaries,
                memory_items : SeqsUpTo(ItemChoices, MaxItems),
                canvas_context : CanvasContexts, config : Configs]
  /\ bret = NoOut

\* turns of one conversation, where the history windows are looked at
MaxLongTurns == 5

\* calls with a long conversation: the memory items that push Tier 1 over a
\* maxChars of 2000 next to the long user text, or none; no other context
HistoryInit ==
  /\ bcall \in [user_text : UserTexts, system_prompt : {<<>>},
                conversation : SeqsUpTo(TurnChoices, MaxLongTurns),
                memory_summary : {<<>>},
                memory_items : {<<>>, <<[content |-> Run("i", 300)]>>},
                canvas_context : {<<>>}, config : Configs]
  /\ bret = NoOut

\* configs with a maxChars of 2000: a canvas budget of 100 characters with
\* the other options at their defaults, and one of 400 with a short summary
TierConfigs ==
  {None,
   Some([NoOptions EXCEPT !.max_chars = Some(2000), !.max_canvas_chars = Some(100)]),
   Some([max_chars |-> Some(2000), max_history |-> Some(4), max_memory_items |-> Some(1),
         max_canvas_chars |-> Some(400), max_memory_chars |-> Some(300),
         max_summary_chars |-> Some(40)])}

\* calls where the tiers are compared: every kind of context, present or
\* not, with the memory items that can take Tier 1 over the budget
TiersInit ==
  /\ bcall \in [user_text : UserTexts, system_prompt : SystemPrompts,
                conversation : SeqsUpTo(TurnChoices, MaxTurns),
                memory_summary : MemorySummaries,
                memory_items : {<<>>, <<[content |-> Run("i", 300)], [content |-> Run("i", 300)]>>},
                canvas_context : CanvasContexts, config : TierConfigs]
  /\ bret = NoOut

Build ==
  /\ UNCHANGED notBuild
  /\ ~bret.done
  /\ bret' = [done |-> TRUE] @@ build_chat_messages(bcall)
  /\ UNCHANGED bcall

BuildNext == Build

(***************************************************************************)
(* Properties of the context assembler.                                     *)
(***************************************************************************)
Limits == Effective(unwrap_or_default(Deserialized(bcall.config)))
LastMessage == bret.out[Len(bret.out)]

\* a text that normalize_text has nothing to do to
IsNormal(t) ==
  /\ Len(t) = 0 \/ (t[1].c \notin White /\ t[Len(t)].c \notin White)
  /\ \A i \in 1..(Len(t) - 1) : ~(t[i].c = "\r" /\ t[i + 1].c = "\n")

\* C9 as stated: the last message has role "user" and its content is the
\* caller's user text as it was passed.
C9_LastIsUserTextVerbatim ==
  bret.done =>
    /\ Len(bret.out) > 0
    /\ LastMessage.role = "user"
    /\ LastMessage.content = bcall.user_text

\* C9: in whichever tier is returned, the last message has role "user" and its
\* content is the whole of the caller's user text after normalization (CRLF
\* as LF, white space at the two ends removed): as many characters as the
\* normalized text has, and the user text itself when it is already normal.
C9_LastIsNormalizedUserText ==
  bret.done =>
    /\ Len(bret.out) > 0
    /\ LastMessage.role = "user"
    /\ LastMessage.content = normalize_text(bcall.user_text)
    /\ CharLen(LastMessage.content) = CharLen(normalize_text(bcall.user_text))
    /\ IsNormal(bcall.user_text) => LastMessage.content = bcall.user_text

\* the minimal tier was returned, over budget, with a long user text whole
C9_Witness ==
  /\ bret.done
  /\ bret.out = Tier3(bcall) /\ bret.out # Tier2(bcall, Limits)
  /\ estimate_chars(bret.out) > Limits.max_chars
  /\ CharLen(LastMessage.content) = 1930

RECURSIVE CharSum(_)
CharSum(messages) ==
  IF Len(messages) = 0 THEN 0
  ELSE CharLen(messages[1].content) + CharSum(Tail(messages))

\* the tier that the count of characters selects
TierByCharacters(full, base, minimal, max_chars) ==
  IF CharSum(full) <= max_chars THEN full
  ELSE IF CharSum(base) <= max_chars THEN base
  ELSE minimal

\* C10: the list returned is Tier 1 exactly when the characters of Tier 1 sum
\* to at most maxChars, else Tier 2 exactly when those of Tier 2 do, else
\* Tier 3; the measure is characters also outside ASCII.
C10_TierByCharacterCount ==
  bret.done =>
    bret.out = TierByCharacters(Tier1(bcall, Limits), Tier2(bcall, Limits),
                                Tier3(bcall), Limits.max_chars)

(***************************************************************************)
(* The lexical memory search.  An f32 is modelled in fixed point, as the    *)
(* number of its thousandths, rounded down; a time is counted in days.      *)
(***************************************************************************)
\* memory items a call may pass
MaxMemory == 3

\* the thousandths in 1.0
Scale == 1000

\* lines 289-291: the characters of U+4E00..U+9FFF that the texts here use
Cjk ==
  {"U4E2D", "U6587", "U672C", "U8282", "U70B9", "U53C2", "U8003", "U56FE",
   "U957F", "U671F", "U8BB0", "U5FC6", "U6458", "U8981", "U68C0", "U7D22",
   "U547D", "U5F53", "U524D", "U9879", "U76EE", "U4E0A", "U4E0B"}
is_cjk(ch) == ch \in Cjk

\* the characters of a text, one by one
RECURSIVE Chars(_)
Chars(t) ==
  IF Len(t) = 0 THEN <<>>
  ELSE IF t[1].n <= 1 THEN <<t[1].c>> \o Chars(Tail(t))
  ELSE <<t[1].c>> \o Chars(<<[c |-> t[1].c, n |-> t[1].n - 1]>> \o Tail(t))

\* lines 304-308 and 316-320: the parts of buf between the characters that
\* are not ASCII letters or digits, the empty parts left out
RECURSIVE Parts(_, _)
Parts(buf, part) ==
  IF Len(buf) = 0 THEN (IF Len(part) = 0 THEN <<>> ELSE <<part>>)
  ELSE IF buf[1] \in AlphaNum THEN Parts(Tail(buf), Append(part, buf[1]))
  ELSE (IF Len(part) = 0 THEN <<>> ELSE <<part>>) \o Parts(Tail(buf), <<>>)

\* lines 301-322: the loop over the characters
RECURSIVE Scan(_, _, _)
Scan(cs, buf, tokens) ==
  IF Len(cs) = 0 THEN tokens \o Parts(buf, <<>>)
  ELSE IF is_cjk(cs[1])
       THEN Scan(Tail(cs), <<>>, tokens \o Parts(buf, <<>>) \o <<<<cs[1]>>>>)
       ELSE Scan(Tail(cs), Append(buf, cs[1]), tokens)

\* lines 293-324
tokenize(text) == Scan(to_ascii_lowercase(Chars(normalize_text(text))), <<>>, <<>>)

SetOf(q) == {q[i] : i \in 1..Len(q)}

\* the integer square root
RECURSIVE IsqrtFrom(_, _)
IsqrtFrom(n, r) ==
  IF (r + n \div r) \div 2 >= r THEN r ELSE IsqrtFrom(n, (r + n \div r) \div 2)
Isqrt(n) == IF n <= 0 THEN 0 ELSE IsqrtFrom(n, n)

Denominator_flat(qlen, dlen) == Scale
\* line 340: ((qset.len() as f32) * (dset.len() as f32)).sqrt().max(1.0)
Denominator(qlen, dlen) == Max(Isqrt(qlen * dlen * Scale * Scale), Scale)

\* lines 334-339
Hits(qset, dset) == Cardinality(qset \cap dset)

\* lines 329-341
ScoreOfTokens(q, d) ==
  IF Len(q) = 0 \/ Len(d) = 0 THEN 0
  ELSE (Hits(SetOf(q), SetOf(d)) * Scale * Scale)
         \div Denominator(Cardinality(SetOf(q)), Cardinality(SetOf(d)))

\* lines 326-342
score_match(query, doc) == ScoreOfTokens(tokenize(query), tokenize(doc))

\* f32::clamp
clamp_f32(x, a, b) == Min(Max(x, a), b)

\* lines 452-456: the age in days, 30.0 for an item that carries no time
recency_days(now, updated_at) == IF updated_at > 0 THEN (now - updated_at) * Scale ELSE 30 * Scale

\* lines 449-460: the item with its content normalized, its lexical score
\* and its composite score, the latter in tenths of the unit (base * 0.7 +
\* importance * 0.2 + recency_boost * 0.1, times ten)
Scored(q, item, now) ==
  [item |-> [item EXCEPT !.content = normalize_text(item.content)],
   base |-> score_match(q, normalize_text(item.content)),
   score |-> score_match(q, normalize_text(item.content)) * 7
              + clamp_f32(item.importance, 0, Scale) * 2
              + (Scale - clamp_f32(recency_days(now, item.updated_at) \div 30, 0, Scale))]

ScoredAll(q, items, now) == [i \in 1..Len(items) |-> Scored(q, items[i], now)]

\* line 462
RECURSIVE Kept(_, _)
Kept(scored, min_score) ==
  IF Len(scored) = 0 THEN <<>>
  ELSE IF scored[1].score >= min_score * 10
       THEN <<scored[1]>> \o Kept(Tail(scored), min_score)
       ELSE Kept(Tail(scored), min_score)

\* a sort that puts x in front of the entries that score as much
RECURSIVE InsertByScore_front(_, _)
InsertByScore_front(sorted, x) ==
  IF Len(sorted) = 0 THEN <<x>>
  ELSE IF sorted[1].score > x.score
       THEN <<sorted[1]>> \o InsertByScore_front(Tail(sorted), x)
       ELSE <<x>> \o sorted

\* line 465: the stable sort, by falling score; x goes behind the entries
\* that score as much as it does
RECURSIVE InsertByScore(_, _)
InsertByScore(sorted, x) ==
  IF Len(sorted) = 0 THEN <<x>>
  ELSE IF sorted[1].score >= x.score
       THEN <<sorted[1]>> \o InsertByScore(Tail(sorted), x)
       ELSE <<x>> \o sorted

RECURSIVE SortByScore(_, _)
SortByScore(sorted, rest) ==
  IF Len(rest) = 0 THEN sorted
  ELSE SortByScore(InsertByScore(sorted, rest[1]), Tail(rest))

\* line 439: limit.unwrap_or(6).max(1)
EffectiveLimit(limit) == Max(IF limit = None THEN 6 ELSE limit[1], 1)

\* line 440: min_score.unwrap_or(0.12)
EffectiveMinScore(min_score) == IF min_score = None THEN 120 ELSE min_score[1]

\* line 466
Taken(sorted, limit) == SubSeq(sorted, 1, Min(Len(sorted), limit))

ItemsOf(scored) == [i \in 1..Len(scored) |-> scored[i].item]

Ranked(scored, limit, min_score) == Taken(SortByScore(<<>>, Kept(scored, min_score)), limit)

\* lines 433-467: what was scored, and what is returned
search_memory(query, items, limit, min_score, now) ==
  IF Len(normalize_text(query)) = 0 THEN [scored |-> <<>>, out |-> <<>>]
  ELSE [scored |-> ScoredAll(normalize_text(query), items, now),
        out |-> ItemsOf(Ranked(ScoredAll(normalize_text(query), items, now),
                               EffectiveLimit(limit), EffectiveMinScore(min_score)))]

\* the clock, in days since the epoch
Now == 40

MemoryOf(id, content, importance, updated_at) ==
  [id |-> id, content |-> content, importance |-> importance, updated_at |-> updated_at]

WordP == Run("P", 1)
WordsPNg == Run("p", 1) \o Run("-", 1) \o Run("n", 1) \o Run("g", 1) \o Run(" ", 1) \o Run("U4E2D", 2)

\* two items that tie, one that matches more and is fresh, one with no
\* content and an importance over 1.0, one that matches nothing
MemoryChoices ==
  {MemoryOf(1, WordP, 0, 0), MemoryOf(2, WordP, 0, 0),
   MemoryOf(3, WordsPNg, 500, Now), MemoryOf(4, <<>>, 2000, 0),
   MemoryOf(5, Run("x", 1), 0 - 1000, 10)}

Queries ==
  {Run("p", 1) \o Run(" ", 1) \o Run("n", 1) \o Run("g", 1) \o Run("\r", 1) \o Run("\n", 1),
   Run("U4E2D", 1) \o Run("p", 1),
   Run("-", 1),
   Run(" ", 1)}

SearchLimits == {None, Some(0), Some(1), Some(2)}
MinScores == {None, Some(0), Some(500)}

IdleSearch == [query |-> <<>>, items |-> <<>>, limit |-> None, min_score |-> None, now |-> Now]
NoFound == [done |-> FALSE, scored |-> <<>>, out |-> <<>>]

SearchIdle == scall = IdleSearch /\ sret = NoFound

SearchInit ==
  /\ scall \in [query : Queries, items : SeqsUpTo(MemoryChoices, MaxMemory),
                limit : SearchLimits, min_score : MinScores, now : {Now}]
  /\ sret = NoFound

Search ==
  /\ UNCHANGED notSearch
  /\ ~sret.done
  /\ sret' = [done |-> TRUE]
               @@ search_memory(scall.query, scall.items, scall.limit, scall.min_score, scall.now)
  /\ UNCHANGED scall

SearchNext == Search

\* the documented default and range of every option
Documented ==
  [max_chars |-> <<12000, 2000, 50000>>, max_history |-> <<16, 4, 64>>,
   max_memory_items |-> <<6, 0, 30>>, max_canvas_chars |-> <<1200, 0, 8000>>,
   max_memory_chars |-> <<1200, 0, 8000>>, max_summary_chars |-> <<600, 0, 4000>>]

\* what the caller supplied for an option, None when nothing
Supplied(option) == IF bcall.config = None THEN None ELSE bcall.config[1][option]

\* C14: the effective value of every option is its default when the option
\* is not supplied, and otherwise the supplied value clamped into its
\* documented range; a supplied 0 for a range that starts at 0 is 0.
C14_EffectiveIsClampedSupplied ==
  bret.done =>
    \A option \in DOMAIN Documented :
      Limits[option] =
        IF Supplied(option) = None THEN Documented[option][1]
        ELSE Min(Max(Supplied(option)[1], Documented[option][2]), Documented[option][3])

\* the turns of the output between the system messages and the user turn
RECURSIVE WithoutSystem(_)
WithoutSystem(messages) ==
  IF Len(messages) = 0 THEN <<>>
  ELSE IF messages[1].role = "system" THEN WithoutSystem(Tail(messages))
  ELSE <<messages[1]>> \o WithoutSystem(Tail(messages))

HistoryOut == WithoutSystem(SubSeq(bret.out, 1, Len(bret.out) - 1))

\* the turns with a role other than system and a content that is not empty
RECURSIVE Speaking(_)
Speaking(conversation) ==
  IF Len(conversation) = 0 THEN <<>>
  ELSE IF conversation[1].role # "system" /\ Len(conversation[1].content) # 0
       THEN <<conversation[1]>> \o Speaking(Tail(conversation))
       ELSE Speaking(Tail(conversation))

\* the turns that have a role other than system and a content that is not
\* blank, each with its content normalized (a role is never empty)
RECURSIVE SpeakingNormalized(_)
SpeakingNormalized(conversation) ==
  IF Len(conversation) = 0 THEN <<>>
  ELSE IF /\ conversation[1].role # "system"
          /\ Len(normalize_text(conversation[1].content)) # 0
       THEN <<MessageOf(conversation[1].role, normalize_text(conversation[1].content))>>
              \o SpeakingNormalized(Tail(conversation))
       ELSE SpeakingNormalized(Tail(conversation))

LastOf(turns, n) == SubSeq(turns, Len(turns) - Min(Len(turns), n) + 1, Len(turns))

\* the window of the tier returned
Window ==
  IF bret.tier = 1 THEN Limits.max_history
  ELSE IF bret.tier = 2 THEN Max(2, Limits.max_history \div 2)
  ELSE 0

Candidates ==
  SnippetLines(NormalizedContents(
    SubSeq(bcall.memory_items, 1, Min(Len(bcall.memory_items), Limits.max_memory_items))))

\* the first k candidate lines, joined
Packed(k) == JoinLines(SubSeq(Candidates, 1, k))

\* C19: the packed memory-items text of the output, without its heading,
\* has at most maxMemoryChars characters and is the candidate lines taken in
\* order, whole, up to the first that would take it over the budget.
C19_PackedWithinBudget ==
  bret.done =>
    \A i \in 1..Len(bret.out) :
      StartsWith(bret.out[i].content, MemoryHeading) =>
        \E k \in 0..Len(Candidates) :
          /\ bret.out[i].content = Cat(MemoryHeading, Packed(k))
          /\ CharLen(Packed(k)) <= Limits.max_memory_chars
          /\ k < Len(Candidates) => CharLen(Packed(k + 1)) > Limits.max_memory_chars

\* the characters of the contents of a list
RECURSIVE TotalChars(_)
TotalChars(messages) ==
  IF Len(messages) = 0 THEN 0
  ELSE CharLen(messages[1].content) + TotalChars(Tail(messages))

\* the context message of a list that begins with the heading
Marked(messages, heading) ==
  SelectSeq(messages, LAMBDA m : m.role = "system" /\ StartsWith(m.content, heading))

\* the turns of the history and the user's message
Spoken(messages) == SelectSeq(messages, LAMBDA m : m.role # "system")

IsSuffix(s, t) == Len(s) <= Len(t) /\ s = SubSeq(t, Len(t) - Len(s) + 1, Len(t))

\* C24: when Tier 1 is over the budget, the Tier 2 list has no more content
\* than the Tier 1 list and the Tier 3 list no more than the Tier 2 list;
\* every message a later tier keeps is no longer than the message of the
\* earlier tier it stands for, the canvas context with a maxCanvasChars below
\* 360 included.
C24_LaterTiersAreShorter ==
  (bret.done /\ bret.tier >= 2) =>
    /\ TotalChars(Tier2(bcall, Limits)) <= TotalChars(Tier1(bcall, Limits))
    /\ TotalChars(Tier3(bcall)) <= TotalChars(Tier2(bcall, Limits))
    /\ \A heading \in {SummaryHeading, MemoryHeading, CanvasHeading} :
         /\ TotalChars(Marked(Tier2(bcall, Limits), heading))
              <= TotalChars(Marked(Tier1(bcall, Limits), heading))
         /\ TotalChars(Marked(Tier3(bcall), heading))
              <= TotalChars(Marked(Tier2(bcall, Limits), heading))
    /\ IsSuffix(Spoken(Tier2(bcall, Limits)), Spoken(Tier1(bcall, Limits)))
    /\ IsSuffix(Spoken(Tier3(bcall)), Spoken(Tier2(bcall, Limits)))

(***************************************************************************)
(* Properties of the memory search.                                         *)
(***************************************************************************)
\* C11: the lexical score of every query and document lies in [0, 1], and it
\* is 0 whenever the query or the document has no token.
C11_ScoreInUnitInterval ==
  sret.done =>
    \A i \in 1..Len(sret.scored) :
      /\ 0 <= sret.scored[i].base /\ sret.scored[i].base <= Scale
      /\ (Len(tokenize(scall.query)) = 0 \/ Len(tokenize(scall.items[i].content)) = 0)
           => sret.scored[i].base = 0

\* a document that has every token of the query and more, one that has a
\* part of them, and one without a token were scored
C11_Witness ==
  /\ sret.done
  /\ \E i \in 1..Len(sret.scored) : sret.scored[i].base > 0 /\ sret.scored[i].base < Scale
  /\ \E i \in 1..Len(sret.scored) :
       /\ Cardinality(SetOf(tokenize(scall.items[i].content))) = 3
       /\ SetOf(tokenize(scall.query)) \subseteq SetOf(tokenize(scall.items[i].content))
       /\ Cardinality(SetOf(tokenize(scall.query))) = 2
  /\ \E i \in 1..Len(sret.scored) :
       Len(tokenize(scall.items[i].content)) = 0 /\ sret.scored[i].base = 0

\* the limit the caller asked for, 6 when none was supplied
AskedLimit == IF scall.limit = None THEN 6 ELSE scall.limit[1]

\* C12: for every query, item list and supplied limit, 0 included, the search
\* returns at most limit items, and at most 6 when no limit is supplied.
C12_AtMostLimit == sret.done => Len(sret.out) <= AskedLimit

\* the ways to say which input item each returned item is
Origins == {f \in [1..Len(sret.out) -> 1..Len(sret.scored)] :
              /\ \A k, l \in 1..Len(sret.out) : f[k] = f[l] => k = l
              /\ \A k \in 1..Len(sret.out) : sret.out[k] = sret.scored[f[k]].item}

Threshold == EffectiveMinScore(scall.min_score) * 10

\* C13: for a non-empty query every returned item has a composite score of
\* at least minScore, the returned items are in non-increasing order of
\* score, items of equal score keep their input order, and no dropped item
\* at or above the threshold outscores a returned one.
C13_RankedAboveThreshold ==
  (sret.done /\ Len(normalize_text(scall.query)) > 0) =>
    \E f \in Origins :
      /\ \A k \in 1..Len(sret.out) : sret.scored[f[k]].score >= Threshold
      /\ \A k, l \in 1..Len(sret.out) :
           k < l => /\ sret.scored[f[k]].score >= sret.scored[f[l]].score
                    /\ sret.scored[f[k]].score = sret.scored[f[l]].score => f[k] < f[l]
      /\ \A j \in 1..Len(sret.scored) :
           (sret.scored[j].score >= Threshold /\ \A k \in 1..Len(sret.out) : f[k] # j)
             => \A k \in 1..Len(sret.out) : sret.scored[j].score <= sret.scored[f[k]].score

\* two different items that tie were returned after a better one was, and
\* an item under the threshold was dropped; and, in another call, an item
\* over the threshold was cut off by the limit
C13_Witness ==
  /\ sret.done
  /\ Len(sret.out) = 2
  /\ Len(sret.scored) = 3
  /\ sret.out[1].id = 1 /\ sret.out[2].id = 2
  /\ sret.scored[1].score = sret.scored[2].score
  /\ sret.scored[3].score >= Threshold
  /\ sret.scored[3].score < sret.scored[1].score

(***************************************************************************)
(* The specifications.                                                      *)
(***************************************************************************)
InitCanvas == CanvasInit /\ CacheInit /\ GraphIdle /\ BuildIdle /\ SearchIdle

SpecCanvas == InitCanvas /\ [][CanvasNext]_vars

InitCache == CacheInit /\ CanvasInit /\ GraphIdle /\ BuildIdle /\ SearchIdle

SpecCache == InitCache /\ [][CacheNext]_vars

InitGraph == GraphInit /\ CanvasInit /\ CacheInit /\ BuildIdle /\ SearchIdle

SpecGraph == InitGraph /\ [][GraphNext]_vars

InitBuild == BuildInit /\ CanvasInit /\ CacheInit /\ GraphIdle /\ SearchIdle

SpecBuild == InitBuild /\ [][BuildNext]_vars

InitHistory == HistoryInit /\ CanvasInit /\ CacheInit /\ GraphIdle /\ SearchIdle

SpecHistory == InitHistory /\ [][BuildNext]_vars

InitImages == ImagesInit /\ CanvasInit /\ CacheInit /\ BuildIdle /\ SearchIdle

SpecImages == InitImages /\ [][GraphNext]_vars

InitTiers == TiersInit /\ CanvasInit /\ CacheInit /\ GraphIdle /\ SearchIdle

SpecTiers == InitTiers /\ [][BuildNext]_vars

InitSearch == SearchInit /\ CanvasInit /\ CacheInit /\ GraphIdle /\ BuildIdle

SpecSearch == InitSearch /\ [][SearchNext]_vars

=============================================================================
